---- MODULE Spec2Model ----
(***************************************************************************)
(* A state-machine model of the extraction framework of scythe: the        *)
(* plugin runner (scythe/utils/interface.py) driving                       *)
(* BaseExtractor.extract_directory (scythe/base.py), the nested-value      *)
(* store and mapping engine (scythe/utils/__init__.py), the postfix        *)
(* grouping (scythe/utils/grouping.py), DFTExtractor.group                 *)
(* (scythe/dft.py), the default group() of scythe/base.py and of           *)
(* materials_io/base.py, and BaseSingleFileExtractor.extract.              *)
(*                                                                         *)
(* Each component has its own variables and its own specification; the     *)
(* variables of the components a specification does not run stay at the    *)
(* idle values given by their Idle predicate.                              *)
(***************************************************************************)
EXTENDS Integers, Sequences, FiniteSets, TLC

(***************************************************************************)
(* Python's None, where the slot otherwise holds a string.                 *)
(***************************************************************************)
None == "None"

\* None where the slot otherwise holds a list of names
NoneList == <<None>>

\* the empty dict {} of names
EmptyMap == [x \in {} |-> None]

Range(s) == {s[i] : i \in DOMAIN s}

(***************************************************************************)
(* State of the plugin runner and of the directory sweep it drives         *)
(***************************************************************************)
VARIABLES
    driver,              \* which generator runs: "directory" or "group"
    include_extractors,  \* argument: NoneList or a list of names
    exclude_extractors,  \* argument: NoneList or a list of names
    adapter_map,         \* argument: [kind, str, dict]
    default_adapter,     \* argument: None or an adapter name
    pc,                  \* position of the generator's frame
    running,             \* the consumer has called next() and the generator runs
    extractors,          \* local `extractors` once _get_extractor_list returned
    amap,                \* local `adapter_map` once _get_adapter_map returned
    idx,                 \* position of `for name in extractors`
    adapter,             \* local `adapter` (its name), None when there is none
    gi,                  \* groups identify_files has produced for this extractor
    metadata,            \* local `metadata`
    out,                 \* what the consumer has received so far
    exLog,               \* history: every call of extract and its outcome
    edOut,               \* history: every pair extract_directory yielded
    trLog,               \* history: every call of transform and its outcome
    error                \* the exception that left the generator and the call
                         \* that raised it, NoError if none

runVars == <<driver, include_extractors, exclude_extractors, adapter_map,
             default_adapter, pc, running, extractors, amap, idx, adapter, gi,
             metadata, out, exLog, edOut, trLog, error>>

(***************************************************************************)
(* State of the nested-value store and of the mapping engine               *)
(***************************************************************************)
VARIABLES
    nest_dict,      \* the destination dict
    source_dict,    \* the dict the mapping rules read
    dpc,            \* "idle", or "mapping" inside map_dict_values
    calls,          \* direct calls of the setters made so far
    lastCall,       \* history: the last direct call, the dict before it, its outcome
    dest0,          \* history: nest_dict when map_dict_values was entered
    mapLog,         \* history: the rules map_dict_values has applied
    mapExc          \* the exception that left map_dict_values, NoExc if none

dictVars == <<nest_dict, source_dict, dpc, calls, lastCall, dest0, mapLog, mapExc>>

(***************************************************************************)
(* State of one call of group_by_postfix (a generator)                     *)
(***************************************************************************)
VARIABLES
    files,            \* argument: the list of paths
    vocabulary,       \* argument: the list of known starts of a file name
    gpc,              \* "start" before the first next(), "groupby", "done"
    matchable_files,  \* sorted(matchable_files, key=sort_key), what groupby has not consumed
    groups            \* the groups yielded so far

pfxVars == <<files, vocabulary, gpc, matchable_files, groups>>

(***************************************************************************)
(* State of one call of DFTExtractor.group (a generator)                   *)
(***************************************************************************)
VARIABLES
    dft_input,        \* argument `files` as passed, before set() drops its order
    dft_files,        \* the local set `files`
    dft_pc,           \* "start" before the first next(), "vasp", "pwscf", "done"
    vasp_pending,     \* what the groupby inside _group_vasp has not consumed
    pwscf_pending,    \* what the groupby inside _group_pwscf has not consumed
    dft_out           \* the groups yielded so far, with the loop that yielded them

dftVars == <<dft_input, dft_files, dft_pc, vasp_pending, pwscf_pending, dft_out>>

(***************************************************************************)
(* State of one call of the default group() (a generator)                  *)
(***************************************************************************)
VARIABLES
    base_class,       \* "BaseExtractor" (scythe) or "BaseParser" (materials_io)
    paths,            \* argument `files` / `paths`: a str or a list of str
    directories,      \* argument `directories` of BaseExtractor.group
    listdir_order,    \* the order in which os.listdir lists each directory
    grp_pc,           \* "start" before the first next(), "loop", "done"
    grp_pending,      \* the groups the loop has still to yield
    grp_out           \* the groups yielded so far

grpVars == <<base_class, paths, directories, listdir_order, grp_pc, grp_pending, grp_out>>

(***************************************************************************)
(* State of one call of BaseSingleFileExtractor.extract                    *)
(***************************************************************************)
VARIABLES
    sf_group,         \* argument `group`: a str or a sequence of str
    sf_pc,            \* "call" before the call, "returned", "raised"
    file_calls,       \* the paths _extract_file was called with
    file_outcome,     \* what the last call of _extract_file did
    result            \* what extract returned, or the exception it raised

sfVars == <<sf_group, sf_pc, file_calls, file_outcome, result>>

(***************************************************************************)
(* State of one call of BaseAdapter.check_compatibility                    *)
(***************************************************************************)
VARIABLES
    adapter_version,  \* what self.version() returns: NoneList or a str
    parser_version,   \* what parser.version() returns: a str
    cc_pc,            \* "call" before the call, "returned", "raised"
    compatible        \* the bool returned, or the exception raised

ccVars == <<adapter_version, parser_version, cc_pc, compatible>>

(***************************************************************************)
(* State of one iteration of a driver's loop, as far as contexts go        *)
(***************************************************************************)
VARIABLES
    ctx_driver,            \* "directory" or "group"
    ctx_name,              \* loop variable `name`: the extractor's name
    ctx_adapter,          \* local `adapter_name`: None or the adapter's name
    global_context,        \* argument, after `if global_context is None`
    extractor_context,     \* argument, after `if extractor_context is None`
    adapter_context,       \* argument, after `if adapter_context is None`
    ctx_pc,                \* "call", "contexts", "extracted", "done"
    my_extractor_context,  \* local, once the helper returned
    my_adapter_context,    \* local, once the helper returned
    extract_context,       \* history: the context extract was called with
    transform_context      \* history: the context transform was called with

ctxVars == <<ctx_driver, ctx_name, ctx_adapter, global_context, extractor_context,
             adapter_context, ctx_pc, my_extractor_context, my_adapter_context,
             extract_context, transform_context>>

(***************************************************************************)
(* State of one call of transform of a serializing adapter                 *)
(***************************************************************************)
VARIABLES
    gs_adapter,       \* "SerializeAdapter" or "GreedySerializeAdapter"
    gs_metadata,      \* argument `metadata`: the values of a dict, in key order
    gs_pc,            \* "call" before the call, "returned", "raised"
    serialized        \* what transform returned, or the exception it raised

gsVars == <<gs_adapter, gs_metadata, gs_pc, serialized>>

(***************************************************************************)
(* State of one call of map_dict_values, with the rule dicts it is given   *)
(***************************************************************************)
VARIABLES
    mapping,          \* argument: the list of rule dicts, as it is now
    mapping_before,   \* history: the list of rule dicts when the call began
    md_source,        \* the dict every rule reads
    md_source_before, \* history: the source dict when the call began
    md_dest,          \* the dict every rule writes
    md_idx,           \* position of `for m in mapping`
    md_pc,            \* "mapping", "returned", "raised"
    md_log            \* history: the exception each applied rule raised, or None

mdVars == <<mapping, mapping_before, md_source, md_source_before, md_dest, md_idx,
            md_pc, md_log>>

vars == <<runVars, dictVars, pfxVars, dftVars, grpVars, sfVars, ccVars, ctxVars,
          gsVars, mdVars>>

\* what the actions of one component leave alone
notRunVars == <<dictVars, pfxVars, dftVars, grpVars, sfVars, ccVars,
    ctxVars, gsVars, mdVars>>
notDictVars == <<runVars, pfxVars, dftVars, grpVars, sfVars, ccVars,
    ctxVars, gsVars, mdVars>>
notPfxVars == <<runVars, dictVars, dftVars, grpVars, sfVars, ccVars,
    ctxVars, gsVars, mdVars>>
notDftVars == <<runVars, dictVars, pfxVars, grpVars, sfVars, ccVars,
    ctxVars, gsVars, mdVars>>
notGrpVars == <<runVars, dictVars, pfxVars, dftVars, sfVars, ccVars,
    ctxVars, gsVars, mdVars>>
notSfVars == <<runVars, dictVars, pfxVars, dftVars, grpVars, ccVars,
    ctxVars, gsVars, mdVars>>
notCcVars == <<runVars, dictVars, pfxVars, dftVars, grpVars, sfVars,
    ctxVars, gsVars, mdVars>>
notCtxVars == <<runVars, dictVars, pfxVars, dftVars, grpVars, sfVars, ccVars,
    gsVars, mdVars>>
notGsVars == <<runVars, dictVars, pfxVars, dftVars, grpVars, sfVars, ccVars,
    ctxVars, mdVars>>
notMdVars == <<runVars, dictVars, pfxVars, dftVars, grpVars, sfVars, ccVars,
    ctxVars, gsVars>>

(***************************************************************************)
(*                    PLUGIN RUNNER AND DIRECTORY SWEEP                    *)
(***************************************************************************)

\* groups one extractor's identify_files produces at most
MaxGroups == 2

\* the entry points of the two stevedore namespaces, in the registry's order
ExtractorRegistry == <<"image", "noop">>
AdapterRegistry == {"noop", "serialize"}

\* the exception classes extract and transform raise here; both derive from
\* Exception
ExceptionKinds == {"ValueError", "OSError"}

\* isinstance(e, Exception)
IsException(e) == e \in {"ValueError", "OSError", "KeyError", "TypeError", "IndexError"}

ExtractOutcomes == {"ok"} \cup ExceptionKinds
TransformOutcomes == {"ok", "none"} \cup ExceptionKinds

get_available_extractors == Range(ExtractorRegistry)
get_available_adapters == AdapterRegistry

\* every ordering of a set: list(set(...)) fixes none
Orderings(S) ==
    {s \in [1..Cardinality(S) -> S] : \A i, j \in 1..Cardinality(S) : s[i] = s[j] => i = j}

\* `to_include is not None and to_exclude is not None`
FiltersNeverConflict(to_include, to_exclude) == FALSE
FiltersConflict(to_include, to_exclude) ==
    to_include # NoneList /\ to_exclude # NoneList

\* _get_extractor_list: the outcomes, [raised, list]
get_extractor_list(to_include, to_exclude) ==
    IF FiltersConflict(to_include, to_exclude)
    THEN {[raised |-> "ValueError", list |-> <<>>]}
    ELSE IF to_include # NoneList
    THEN IF Range(to_include) \ get_available_extractors # {}
         THEN {[raised |-> "ValueError", list |-> <<>>]}
         ELSE {[raised |-> None, list |-> to_include]}
    ELSE IF to_exclude # NoneList
    THEN {[raised |-> None, list |-> l] :
             l \in Orderings(get_available_extractors \ Range(to_exclude))}
    ELSE {[raised |-> None, list |-> ExtractorRegistry]}

\* _get_adapter_map: [raised, map]
get_adapter_map(am, exts) ==
    IF am.kind = "None"
    THEN [raised |-> None, map |-> EmptyMap]
    ELSE IF am.kind = "str" /\ am.str = "match"
    THEN [raised |-> None,
          map |-> [x \in Range(exts) \cap get_available_adapters |-> x]]
    ELSE IF am.kind # "dict"
    THEN [raised |-> "ValueError", map |-> EmptyMap]
    ELSE [raised |-> None, map |-> am.dict]

\* adapter_map.get(name, default_adapter)
AdapterNameDefaultFirst(m, name, dflt) ==
    IF dflt # None THEN dflt ELSE IF name \in DOMAIN m THEN m[name] ELSE None
AdapterNameFor(m, name, dflt) == IF name \in DOMAIN m THEN m[name] ELSE dflt

\* the record extract returns for a group
Record(name, g) == [extractor |-> name, group |-> g, adapter |-> None, isNone |-> FALSE]

\* what transform returns: the adapted record, or None
Transformed(md, a, t) == [md EXCEPT !.adapter = a, !.isNone = (t = "none")]

ExtractResult(g, name, md) == [group |-> g, extractor |-> name, metadata |-> md]

\* `except Exception` of extract_directory
SweepCatchesNothing(e) == FALSE
SweepCatches(e) == IsException(e)

\* `except Exception` around adapter.transform in the directory driver
AdapterCatchesNothing(e) == FALSE
AdapterCatches(e) == IsException(e)

\* `if metadata is None: continue` of the directory driver
KeepsNone(md) == FALSE
DropsNone(md) == md.isNone

IncludeArgs == {NoneList, <<"image">>, <<"noop", "image">>, <<"bogus">>}
ExcludeArgs == {NoneList, <<"image">>}
AdapterMapArgs ==
    { [kind |-> "None", str |-> "", dict |-> EmptyMap],
      [kind |-> "str", str |-> "match", dict |-> EmptyMap],
      [kind |-> "str", str |-> "matching", dict |-> EmptyMap],
      [kind |-> "dict", str |-> "", dict |-> [x \in {"image"} |-> "serialize"]] }
DefaultAdapterArgs == {None, "noop", "bogus"}

NoError == [kind |-> None, at |-> None]

NoMetadata == [extractor |-> None, group |-> 0, adapter |-> None, isNone |-> FALSE]

RunInit ==
    /\ driver \in {"directory", "group"}
    /\ include_extractors \in IncludeArgs
    /\ exclude_extractors \in ExcludeArgs
    /\ adapter_map \in AdapterMapArgs
    /\ default_adapter \in DefaultAdapterArgs
    /\ pc = "start"
    /\ running = FALSE
    /\ extractors = <<>>
    /\ amap = EmptyMap
    /\ idx = 0
    /\ adapter = None
    /\ gi = 0
    /\ metadata = NoMetadata
    /\ out = <<>>
    /\ exLog = <<>>
    /\ edOut = <<>>
    /\ trLog = <<>>
    /\ error = NoError

RunIdle ==
    /\ driver = "idle"
    /\ include_extractors = NoneList
    /\ exclude_extractors = NoneList
    /\ adapter_map = [kind |-> "None", str |-> "", dict |-> EmptyMap]
    /\ default_adapter = None
    /\ pc = "idle"
    /\ running = FALSE
    /\ extractors = <<>>
    /\ amap = EmptyMap
    /\ idx = 0
    /\ adapter = None
    /\ gi = 0
    /\ metadata = NoMetadata
    /\ out = <<>>
    /\ exLog = <<>>
    /\ edOut = <<>>
    /\ trLog = <<>>
    /\ error = NoError

\* the body of a generator runs only inside a next() of its consumer
RequestedAlways == TRUE
Requested == running

\* an exception leaves the generator: the frame is gone
RaiseAbsorbed(e, at) ==
    /\ pc' = "done"
    /\ error' = NoError
    /\ running' = FALSE
Raise(e, at) ==
    /\ pc' = "raised"
    /\ error' = [kind |-> e, at |-> at]
    /\ running' = FALSE

\* the consumer asks for the next result
Pull ==
    /\ driver \in {"directory", "group"}
    /\ ~running
    /\ pc \notin {"done", "raised"}
    /\ running' = TRUE
    /\ UNCHANGED <<driver, include_extractors, exclude_extractors, adapter_map,
                   default_adapter, pc, extractors, amap, idx, adapter, gi,
                   metadata, out, exLog, edOut, trLog, error>>
    /\ UNCHANGED notRunVars

\* the body of either driver up to its loop
Setup ==
    /\ pc = "start"
    /\ running
    /\ \E r \in get_extractor_list(include_extractors, exclude_extractors) :
          IF r.raised # None
          THEN /\ Raise(r.raised, "_get_extractor_list")
               /\ UNCHANGED <<extractors, amap, idx>>
          ELSE LET m == get_adapter_map(adapter_map, r.list) IN
               IF m.raised # None
               THEN /\ Raise(m.raised, "_get_adapter_map")
                    /\ UNCHANGED <<extractors, amap, idx>>
               ELSE /\ extractors' = r.list
                    /\ amap' = m.map
                    /\ idx' = 1
                    /\ pc' = "loop"
                    /\ UNCHANGED <<running, error>>
    /\ UNCHANGED <<driver, include_extractors, exclude_extractors, adapter_map,
                   default_adapter, adapter, gi, metadata, out, exLog, edOut, trLog>>
    /\ UNCHANGED notRunVars

\* run_all_extractors_on_directory: `for name in extractors` up to the sweep
NextExtractor ==
    /\ driver = "directory"
    /\ pc = "loop"
    /\ running
    /\ IF idx > Len(extractors)
       THEN /\ pc' = "done"
            /\ running' = FALSE
            /\ UNCHANGED <<adapter, gi, error>>
       ELSE LET name == extractors[idx]
                adapter_name == AdapterNameFor(amap, name, default_adapter)
            IN  IF name \notin get_available_extractors
                THEN Raise("NoMatches", "get_extractor") /\ UNCHANGED <<adapter, gi>>
                ELSE IF adapter_name # None /\ adapter_name \notin get_available_adapters
                THEN Raise("NoMatches", "get_adapter") /\ UNCHANGED <<adapter, gi>>
                ELSE /\ adapter' = adapter_name
                     /\ gi' = 0
                     /\ pc' = "identify"
                     /\ UNCHANGED <<running, error>>
    /\ UNCHANGED <<driver, include_extractors, exclude_extractors, adapter_map,
                   default_adapter, extractors, amap, idx, metadata, out, exLog,
                   edOut, trLog>>
    /\ UNCHANGED notRunVars

\* extract_directory asks identify_files for the next group
IdentifyFiles ==
    /\ driver = "directory"
    /\ pc = "identify"
    /\ Requested
    /\ \/ /\ gi < MaxGroups
          /\ gi' = gi + 1
          /\ pc' = "extract"
          /\ UNCHANGED idx
       \/ /\ idx' = idx + 1
          /\ pc' = "loop"
          /\ UNCHANGED gi
    /\ UNCHANGED <<driver, include_extractors, exclude_extractors, adapter_map,
                   default_adapter, running, extractors, amap, adapter, metadata,
                   out, exLog, edOut, trLog, error>>
    /\ UNCHANGED notRunVars

\* extract_directory: try extract; skip the group, or yield the pair
ExtractGroup ==
    /\ driver = "directory"
    /\ pc = "extract"
    /\ Requested
    /\ \E o \in ExtractOutcomes :
          /\ exLog' = Append(exLog, [extractor |-> extractors[idx], group |-> gi,
                                     outcome |-> o])
          /\ IF o = "ok"
             THEN /\ metadata' = Record(extractors[idx], gi)
                  /\ edOut' = Append(edOut, <<gi, Record(extractors[idx], gi)>>)
                  /\ pc' = "adapt"
                  /\ UNCHANGED <<running, error>>
             ELSE IF SweepCatches(o)
             THEN /\ pc' = "identify"
                  /\ UNCHANGED <<metadata, edOut, running, error>>
             ELSE /\ Raise(o, "extract")
                  /\ UNCHANGED <<metadata, edOut>>
    /\ UNCHANGED <<driver, include_extractors, exclude_extractors, adapter_map,
                   default_adapter, extractors, amap, idx, adapter, gi, out, trLog>>
    /\ UNCHANGED notRunVars

\* the directory driver's loop body: run the adapter, if defined
AdaptRecord ==
    /\ driver = "directory"
    /\ pc = "adapt"
    /\ running
    /\ IF adapter = None
       THEN /\ pc' = "yield"
            /\ UNCHANGED <<metadata, trLog, running, error>>
       ELSE \E t \in TransformOutcomes :
              /\ trLog' = Append(trLog, [extractor |-> extractors[idx], group |-> gi,
                                         adapter |-> adapter, outcome |-> t])
              /\ IF t \in ExceptionKinds
                 THEN IF AdapterCatches(t)
                      THEN /\ pc' = "identify"
                           /\ UNCHANGED <<metadata, running, error>>
                      ELSE /\ Raise(t, "transform")
                           /\ UNCHANGED metadata
                 ELSE /\ metadata' = Transformed(metadata, adapter, t)
                      /\ pc' = IF DropsNone(Transformed(metadata, adapter, t))
                               THEN "identify" ELSE "yield"
                      /\ UNCHANGED <<running, error>>
    /\ UNCHANGED <<driver, include_extractors, exclude_extractors, adapter_map,
                   default_adapter, extractors, amap, idx, adapter, gi, out, exLog,
                   edOut>>
    /\ UNCHANGED notRunVars

\* yield ExtractResult(group, name, metadata): the generator suspends
YieldResult ==
    /\ driver = "directory"
    /\ pc = "yield"
    /\ running
    /\ out' = Append(out, ExtractResult(gi, extractors[idx], metadata))
    /\ running' = FALSE
    /\ pc' = "identify"
    /\ UNCHANGED <<driver, include_extractors, exclude_extractors, adapter_map,
                   default_adapter, extractors, amap, idx, adapter, gi, metadata,
                   exLog, edOut, trLog, error>>
    /\ UNCHANGED notRunVars

\* run_all_extractors_on_group: `for name in extractors`, then run_extractor
RunExtractorOnGroup ==
    /\ driver = "group"
    /\ pc = "loop"
    /\ running
    /\ IF idx > Len(extractors)
       THEN /\ pc' = "done"
            /\ running' = FALSE
            /\ UNCHANGED <<adapter, metadata, exLog, trLog, error>>
       ELSE LET name == extractors[idx]
                adapter_name == AdapterNameFor(amap, name, default_adapter)
            IN  \E o \in ExtractOutcomes, t \in TransformOutcomes :
                  /\ adapter' = adapter_name
                  /\ exLog' = Append(exLog, [extractor |-> name, group |-> 1,
                                             outcome |-> o])
                  /\ IF o # "ok"
                     THEN /\ Raise(o, "extract")
                          /\ t = "ok"
                          /\ UNCHANGED <<metadata, trLog>>
                     ELSE IF adapter_name = None
                     THEN /\ metadata' = Record(name, 1)
                          /\ t = "ok"
                          /\ pc' = "yield"
                          /\ UNCHANGED <<trLog, running, error>>
                     ELSE IF adapter_name \notin get_available_adapters
                     THEN /\ Raise("NoMatches", "get_adapter")
                          /\ t = "ok"
                          /\ UNCHANGED <<metadata, trLog>>
                     ELSE /\ trLog' = Append(trLog, [extractor |-> name, group |-> 1,
                                                     adapter |-> adapter_name,
                                                     outcome |-> t])
                          /\ IF t \in ExceptionKinds
                             THEN /\ Raise(t, "transform")
                                  /\ UNCHANGED metadata
                             ELSE /\ metadata' = Transformed(Record(name, 1),
                                                             adapter_name, t)
                                  /\ pc' = "yield"
                                  /\ UNCHANGED <<running, error>>
    /\ UNCHANGED <<driver, include_extractors, exclude_extractors, adapter_map,
                   default_adapter, extractors, amap, idx, gi, out, edOut>>
    /\ UNCHANGED notRunVars

\* run_all_extractors_on_group: yield ExtractResult(group, name, metadata)
YieldGroupResult ==
    /\ driver = "group"
    /\ pc = "yield"
    /\ running
    /\ out' = Append(out, ExtractResult(1, extractors[idx], metadata))
    /\ running' = FALSE
    /\ idx' = idx + 1
    /\ pc' = "loop"
    /\ UNCHANGED <<driver, include_extractors, exclude_extractors, adapter_map,
                   default_adapter, extractors, amap, adapter, gi, metadata,
                   exLog, edOut, trLog, error>>
    /\ UNCHANGED notRunVars

RunNext ==
    \/ Pull
    \/ Setup
    \/ NextExtractor
    \/ IdentifyFiles
    \/ ExtractGroup
    \/ AdaptRecord
    \/ YieldResult
    \/ RunExtractorOnGroup
    \/ YieldGroupResult

(***************************************************************************)
(* Claims about the sweep and the drivers                                  *)
(***************************************************************************)
\* the calls of extract that returned, in call order
ReturnedExtracts == SelectSeq(exLog, LAMBDA e : e.outcome = "ok")

\* C1: extract_directory yields exactly one (group, record) pair for every
\* group on which extract returned, in the order the groups were produced,
\* nothing for a group whose extract raised, and no exception of extract ever
\* leaves it.
C1_SweepSkipsFailedGroups ==
    driver = "directory" =>
        /\ edOut = [i \in 1..Len(ReturnedExtracts) |->
                      <<ReturnedExtracts[i].group,
                        Record(ReturnedExtracts[i].extractor, ReturnedExtracts[i].group)>>]
        /\ error.at # "extract"

\* C1 witness: the first extractor's sweep is over, one group was extracted and
\* one group's extract raised; the sweep yielded exactly one pair.
C1_Witness ==
    /\ driver = "directory"
    /\ pc = "loop"
    /\ idx = 2
    /\ Len(exLog) = 2
    /\ \E i, j \in 1..2 : exLog[i].outcome = "ok" /\ exLog[j].outcome \in ExceptionKinds
    /\ Len(edOut) = 1

\* the adapter the directory driver pairs with an extractor
ConfiguredAdapter(name) == AdapterNameFor(amap, name, default_adapter)

\* the outcome of transform on the pair of (name, g), "pending" before the call
TransformOutcome(name, g) ==
    IF \E k \in DOMAIN trLog : trLog[k].extractor = name /\ trLog[k].group = g
    THEN (CHOOSE e \in Range(trLog) : e.extractor = name /\ e.group = g).outcome
    ELSE "pending"

\* what the directory driver owes the consumer for one pair of extract_directory
Owed(pair) ==
    LET name == pair[2].extractor
        a == ConfiguredAdapter(name)
    IN  IF a = None
        THEN [keep |-> TRUE, r |-> ExtractResult(pair[1], name, pair[2])]
        ELSE [keep |-> TransformOutcome(name, pair[1]) = "ok",
              r |-> ExtractResult(pair[1], name, Transformed(pair[2], a, "ok"))]

OwedResults ==
    LET owed == SelectSeq([i \in DOMAIN edOut |-> Owed(edOut[i])], LAMBDA x : x.keep)
    IN  [i \in DOMAIN owed |-> owed[i].r]

\* the directory driver is between two pairs
Settled == pc \in {"loop", "identify", "extract", "done", "raised"}

\* C9: in run_all_extractors_on_directory a pair whose transform raised or
\* returned None yields nothing and the sweep goes on (no exception of
\* transform leaves it); every other pair yields exactly one triple.
C9_AdapterFailureSkipsPair ==
    driver = "directory" =>
        /\ Settled => out = OwedResults
        /\ error.at # "transform"
        /\ \A k \in DOMAIN trLog : trLog[k].adapter = ConfiguredAdapter(trLog[k].extractor)

\* C9 witness: the first extractor's adapter raised on one group and returned
\* None on the other, and the second extractor then yielded a result.
C9_Witness ==
    /\ driver = "directory"
    /\ Len(trLog) >= 2
    /\ trLog[1].outcome \in ExceptionKinds
    /\ trLog[2].outcome = "none"
    /\ trLog[1].extractor = trLog[2].extractor
    /\ Len(out) = 1
    /\ out[1].extractor # trLog[1].extractor

\* C10: no driver yields a result whose record is the None an adapter's
\* transform returned.
C10_NoAdapterNoneYielded ==
    \A i \in DOMAIN out : ~out[i].metadata.isNone

C12_UsageErrorsOnlyAtSetup ==
    (driver = "directory" /\ pc = "raised") =>
        /\ exLog = <<>>
        /\ out = <<>>

\* C13: in run_all_extractors_on_group (and in the run_extractor it calls) an
\* exception of extract or of transform is the last thing that happened: the
\* generator has raised that very exception to the caller, and the extractor
\* it came from yielded no result.
C13_GroupDriverPropagates ==
    driver = "group" =>
        /\ \A k \in DOMAIN exLog :
              exLog[k].outcome \in ExceptionKinds =>
                  /\ k = Len(exLog)
                  /\ pc = "raised"
                  /\ error = [kind |-> exLog[k].outcome, at |-> "extract"]
                  /\ Len(out) = k - 1
        /\ \A k \in DOMAIN trLog :
              trLog[k].outcome \in ExceptionKinds =>
                  /\ k = Len(trLog)
                  /\ pc = "raised"
                  /\ error = [kind |-> trLog[k].outcome, at |-> "transform"]
                  /\ Len(out) = Len(exLog) - 1

\* the first extractor yielded its result and the second one's adapter raised
C13_Witness ==
    /\ driver = "group"
    /\ Len(out) = 1
    /\ Len(trLog) >= 1
    /\ trLog[Len(trLog)].outcome \in ExceptionKinds
    /\ pc = "raised"

\* the pairs of extract_directory the directory driver has finished with
ConsumedPairs ==
    Len(out) + Cardinality({k \in DOMAIN trLog : trLog[k].outcome # "ok"})

\* C14: the sweep is pull-driven: while the consumer holds k results and has
\* not asked for more, the generator stands at its yield (or has not started)
\* and the last extract invoked is the one that produced the k-th result; at
\* any time at most one pair produced by extract_directory has not yet been
\* yielded or dropped, and only while the driver is handling it.
C14_SweepIsPullDriven ==
    driver = "directory" =>
        /\ (~running /\ pc \notin {"done", "raised"}) =>
              IF out = <<>>
              THEN pc = "start" /\ exLog = <<>>
              ELSE /\ pc = "identify"
                   /\ exLog[Len(exLog)] =
                         [extractor |-> out[Len(out)].extractor,
                          group |-> out[Len(out)].group, outcome |-> "ok"]
        /\ Len(edOut) - ConsumedPairs \in {0, 1}
        /\ Len(edOut) - ConsumedPairs = 1 => pc \in {"adapt", "yield"}

\* the consumer holds one result, has not asked for more, and a group of the
\* same extractor is still to come
C14_Witness ==
    /\ driver = "directory"
    /\ ~running
    /\ Len(out) = 1
    /\ pc = "identify"
    /\ gi < MaxGroups

\* the adapter the arguments of the driver name for an extractor
NamedAdapter(name) ==
    IF adapter_map.kind = "dict" /\ name \in DOMAIN adapter_map.dict
    THEN adapter_map.dict[name]
    ELSE IF adapter_map.kind = "str" /\ adapter_map.str = "match"
            /\ name \in AdapterRegistry
    THEN name
    ELSE default_adapter

\* C22: in a directory sweep the adapter whose transform is called on an
\* extractor's records, and whose output is yielded, is the one the adapter
\* map names for that extractor (an explicit dict, or 'match' pairing it with
\* the adapter of the same name) when the map has an entry for it, otherwise
\* the default adapter; with neither, transform is not called and the record
\* is yielded as extracted.  An adapter_map that is neither None, 'match' nor
\* a dict makes the first next() raise ValueError.
C22_AdapterPriority ==
    driver = "directory" =>
        /\ \A k \in DOMAIN trLog :
              trLog[k].adapter = NamedAdapter(trLog[k].extractor)
        /\ \A i \in DOMAIN out :
              /\ out[i].metadata.adapter = NamedAdapter(out[i].extractor)
              /\ NamedAdapter(out[i].extractor) = None =>
                    /\ out[i].metadata = Record(out[i].extractor, out[i].group)
                    /\ \A k \in DOMAIN trLog : trLog[k].extractor # out[i].extractor
        /\ (adapter_map.kind = "str" /\ adapter_map.str # "match" /\ pc # "start") =>
              /\ pc = "raised"
              /\ error.kind = "ValueError"
              /\ out = <<>>

\* with the map {image: serialize} and the default adapter noop, a record of
\* image came out of serialize and a record of noop came out of noop
C22_Witness ==
    /\ driver = "directory"
    /\ adapter_map.kind = "dict"
    /\ default_adapter = "noop"
    /\ \E i, j \in DOMAIN out :
          /\ out[i].extractor = "image" /\ out[i].metadata.adapter = "serialize"
          /\ out[j].extractor = "noop" /\ out[j].metadata.adapter = "noop"

(***************************************************************************)
(*               NESTED-VALUE STORE AND MAPPING ENGINE                     *)
(*                                                                         *)
(* A nested dict is a tree: a function from the key paths that resolve in  *)
(* it (the empty path included) to labels.  "DICT" labels a dict, any      *)
(* other label is the Python literal of a leaf.  A value is a tree too:    *)
(* a leaf is the tree whose only path is the empty one.                    *)
(***************************************************************************)

\* direct calls of a setter in one behaviour
MaxCalls == 1

\* rules in one mapping list
MaxRules == 2

IsPrefix(p, r) == Len(p) <= Len(r) /\ SubSeq(r, 1, Len(p)) = p

Rest(p, r) == SubSeq(r, Len(p) + 1, Len(r))

Leaf(l) == [p \in {<<>>} |-> l]

EmptyDict == Leaf("DICT")

NoneValue == Leaf(None)

\* the value stored at path p of t (p resolves in t)
Sub(t, p) ==
    [q \in {Rest(p, r) : r \in {x \in DOMAIN t : IsPrefix(p, x)}} |-> t[p \o q]]

\* t with the value v stored at path p, replacing what was there
Graft(t, p, v) ==
    [r \in {x \in DOMAIN t : ~IsPrefix(p, x)} \cup {p \o q : q \in DOMAIN v} |->
        IF IsPrefix(p, r) THEN v[Rest(p, r)] ELSE t[r]]

\* {k1: v1, ...} from a set of <<key, value>> pairs
Dict(items) ==
    [r \in {<<>>} \cup UNION {{<<i[1]>> \o q : q \in DOMAIN i[2]} : i \in items} |->
        IF r = <<>> THEN "DICT"
        ELSE (CHOOSE i \in items : i[1] = r[1])[2][Rest(<<r[1]>>, r)]]

\* `value is None`
IsNoneNever(value) == FALSE
IsNone(value) == value = NoneValue

\* `sub_dict in [{}, dict(), [], '', None]`
IsEmptyValueNever(v) == FALSE
IsEmptyValueOnlyNone(v) == v = NoneValue
IsEmptyValue(v) == v \in {EmptyDict, Leaf("[]"), Leaf("''"), NoneValue}

\* the cast functions of the rules: float
ApplyFloat(v) ==
    IF v = Leaf("'1.5'") \/ v = Leaf("1.5") THEN [exc |-> None, val |-> Leaf("1.5")]
    ELSE IF v = Leaf("0.75") THEN [exc |-> None, val |-> v]
    ELSE IF v \in {Leaf("'abc'"), Leaf("''"), Leaf("'x'"), Leaf("'y'")}
    THEN [exc |-> "ValueError", val |-> NoneValue]
    ELSE [exc |-> "TypeError", val |-> NoneValue]

\* the conversion function of the rules: lambda x: x / 2
ApplyHalve(v) ==
    IF v = Leaf("1.5") THEN [exc |-> None, val |-> Leaf("0.75")]
    ELSE IF v = Leaf("0.75") THEN [exc |-> None, val |-> Leaf("0.375")]
    ELSE [exc |-> "TypeError", val |-> NoneValue]

Apply(fn, v) ==
    IF fn = "float" THEN ApplyFloat(v) ELSE ApplyHalve(v)

\* the loop `for key in path: sub_dict = sub_dict[key]` from position i on:
\* [exc, val], KeyError being the return of None
RECURSIVE Resolve(_, _, _)
Resolve(t, path, i) ==
    IF i = Len(path)
    THEN [exc |-> None, val |-> Sub(t, path)]
    ELSE IF t[SubSeq(path, 1, i)] # "DICT"
    THEN [exc |-> "TypeError", val |-> NoneValue]
    ELSE IF SubSeq(path, 1, i + 1) \notin DOMAIN t
    THEN [exc |-> "KeyError", val |-> NoneValue]
    ELSE Resolve(t, path, i + 1)

\* get_nested_dict_value_by_path: [exc, val, cast_called], cast_called
\* telling whether cast was applied
get_nested_dict_value_by_path(t, path, cast) ==
    LET r == Resolve(t, path, 0) IN
    IF r.exc = "KeyError"
    THEN [exc |-> None, val |-> NoneValue, cast_called |-> FALSE]
    ELSE IF r.exc # None
    THEN [exc |-> r.exc, val |-> NoneValue, cast_called |-> FALSE]
    ELSE IF IsEmptyValue(r.val)
    THEN [exc |-> None, val |-> NoneValue, cast_called |-> FALSE]
    ELSE IF cast # None
    THEN IF Apply(cast, r.val).exc = None
         THEN [exc |-> None, val |-> Apply(cast, r.val).val, cast_called |-> TRUE]
         ELSE [exc |-> None, val |-> r.val, cast_called |-> TRUE]
    ELSE [exc |-> None, val |-> r.val, cast_called |-> FALSE]

\* `for key in path[:-1]: nest_dict = nest_dict.setdefault(key, {})`
RECURSIVE SetDefaults(_, _, _)
SetDefaults(t, path, i) ==
    IF i >= Len(path)
    THEN t
    ELSE IF SubSeq(path, 1, i) \in DOMAIN t
    THEN SetDefaults(t, path, i + 1)
    ELSE SetDefaults(Graft(t, SubSeq(path, 1, i), EmptyDict), path, i + 1)

\* `orig_value is None or orig_value is not None and override`
MaySetNever(orig_value, override) == FALSE
MaySetAlways(orig_value, override) == TRUE
MaySet(orig_value, override) ==
    orig_value = NoneValue \/ (orig_value # NoneValue /\ override)

\* set_nested_dict_value: [exc, dict], dict being nest_dict after the call
set_nested_dict_value(t, path, value, override) ==
    IF IsNone(value)
    THEN [exc |-> None, dict |-> t]
    ELSE LET orig == get_nested_dict_value_by_path(t, path, None) IN
         IF orig.exc # None
         THEN [exc |-> orig.exc, dict |-> t]
         ELSE IF MaySet(orig.val, override)
         THEN [exc |-> None, dict |-> Graft(SetDefaults(t, path, 1), path, value)]
         ELSE [exc |-> None, dict |-> SetDefaults(t, path, 1)]

\* to_set = {'value': value}, with to_set['units'] = units when given
ToSet(value, units) ==
    IF units = None
    THEN Dict({<<"value", value>>})
    ELSE Dict({<<"value", value>>, <<"units", Leaf(units)>>})

\* set_nested_dict_value_with_units: [exc, dict, to_set, fn_called]; to_set
\* is NoneValue when nothing was handed to set_nested_dict_value, fn_called
\* tells whether fn was applied
set_nested_dict_value_with_units(t, path, value, units, override, fn) ==
    IF IsNone(value)
    THEN [exc |-> None, dict |-> t, to_set |-> NoneValue, fn_called |-> FALSE]
    ELSE IF fn # None /\ Apply(fn, value).exc # None
    THEN [exc |-> Apply(fn, value).exc, dict |-> t, to_set |-> NoneValue,
          fn_called |-> TRUE]
    ELSE LET converted == IF fn # None THEN Apply(fn, value).val ELSE value
             r == set_nested_dict_value(t, path, ToSet(converted, units), override)
         IN  [exc |-> r.exc, dict |-> r.dict, to_set |-> ToSet(converted, units),
              fn_called |-> fn # None]

\* what is in the containers the behaviours start from
DestALeaves == {"'x'", "''", "[]", None}
DestBValues ==
    {Leaf(l) : l \in DestALeaves} \cup {EmptyDict, Dict({<<"c", Leaf("'x'")>>})}
DestAValues ==
    {Leaf(l) : l \in DestALeaves}
        \cup {EmptyDict}
        \cup {Dict({<<"b", v>>}) : v \in DestBValues}
InitialDicts ==
    {EmptyDict, Dict({<<"k", Leaf("'x'")>>})}
        \cup {Dict({<<"a", v>>}) : v \in DestAValues}
        \cup {Dict({<<"a", v>>, <<"k", Leaf("'x'")>>}) : v \in DestAValues}

\* the arguments of the direct calls
SetPaths == {<<"a">>, <<"a", "b">>, <<"k">>}
SetValues == {NoneValue, Leaf("'y'"), Leaf("''"), Dict({<<"c", Leaf("'y'")>>})}
UnitValues == {NoneValue, Leaf("1.5"), Leaf("'y'"), Leaf("''")}

\* the source of the mapping rules
SourceDict ==
    Dict({<<"t", Leaf("'1.5'")>>, <<"name", Leaf("'abc'")>>, <<"blank", Leaf("''")>>})

\* what left map_dict_values: the exception, and whether the cast of the rule
\* that raised it had failed on the source value
NoExc == [kind |-> None, cast_failed |-> FALSE]

\* the record of the last direct call: its arguments, the container before
\* it, what it raised, returned (get) or handed on (to_set), and whether it
\* applied its function argument
NoCall == [fn |-> None, path |-> <<>>, value |-> NoneValue, override |-> FALSE,
           units |-> None, cast |-> None, conv |-> None,
           before |-> EmptyDict, exc |-> None, returned |-> NoneValue,
           to_set |-> NoneValue, fn_called |-> FALSE]

DictInit ==
    /\ nest_dict \in InitialDicts
    /\ source_dict = SourceDict
    /\ dpc = "idle"
    /\ calls = 0
    /\ lastCall = NoCall
    /\ dest0 = EmptyDict
    /\ mapLog = <<>>
    /\ mapExc = NoExc

DictIdle ==
    /\ nest_dict = EmptyDict
    /\ source_dict = EmptyDict
    /\ dpc = "off"
    /\ calls = 0
    /\ lastCall = NoCall
    /\ dest0 = EmptyDict
    /\ mapLog = <<>>
    /\ mapExc = NoExc

\* a caller runs set_nested_dict_value(nest_dict, path, value, override)
SetNestedDictValue ==
    /\ dpc = "idle"
    /\ calls < MaxCalls
    /\ \E path \in SetPaths, value \in SetValues, override \in BOOLEAN :
          LET r == set_nested_dict_value(nest_dict, path, value, override) IN
          /\ nest_dict' = r.dict
          /\ lastCall' = [NoCall EXCEPT !.fn = "set_nested_dict_value",
                              !.path = path, !.value = value,
                              !.override = override, !.before = nest_dict,
                              !.exc = r.exc]
    /\ calls' = calls + 1
    /\ UNCHANGED <<source_dict, dpc, dest0, mapLog, mapExc>>
    /\ UNCHANGED notDictVars

\* a caller runs set_nested_dict_value_with_units(nest_dict, path, value,
\* units, override, fn)
SetNestedDictValueWithUnits ==
    /\ dpc = "idle"
    /\ calls < MaxCalls
    /\ \E path \in SetPaths, value \in UnitValues, override \in BOOLEAN,
          units \in {None, "'nm'"}, fn \in {None, "halve"} :
          LET r == set_nested_dict_value_with_units(nest_dict, path, value, units,
                                                    override, fn) IN
          /\ nest_dict' = r.dict
          /\ lastCall' = [NoCall EXCEPT !.fn = "set_nested_dict_value_with_units",
                              !.path = path, !.value = value,
                              !.override = override, !.units = units,
                              !.conv = fn, !.before = nest_dict, !.exc = r.exc,
                              !.to_set = r.to_set, !.fn_called = r.fn_called]
    /\ calls' = calls + 1
    /\ UNCHANGED <<source_dict, dpc, dest0, mapLog, mapExc>>
    /\ UNCHANGED notDictVars

\* a caller runs get_nested_dict_value_by_path(nest_dict, path, cast)
GetNestedDictValue ==
    /\ dpc = "idle"
    /\ calls < MaxCalls
    /\ \E path \in SetPaths, cast \in {None, "float"} :
          LET r == get_nested_dict_value_by_path(nest_dict, path, cast) IN
          lastCall' = [NoCall EXCEPT !.fn = "get_nested_dict_value_by_path",
                          !.path = path, !.cast = cast, !.before = nest_dict,
                          !.exc = r.exc, !.returned = r.val,
                          !.fn_called = r.cast_called]
    /\ calls' = calls + 1
    /\ UNCHANGED <<nest_dict, source_dict, dpc, dest0, mapLog, mapExc>>
    /\ UNCHANGED notDictVars

DictNext ==
    \/ SetNestedDictValue
    \/ SetNestedDictValueWithUnits
    \/ GetNestedDictValue


(***************************************************************************)
(* Claims about set_nested_dict_value                                      *)
(***************************************************************************)
\* something is stored at path p of t
Holds(t, p) == p \in DOMAIN t

CalledSet == lastCall.fn = "set_nested_dict_value" /\ lastCall.value # NoneValue

\* C2 as stated: a destination that holds any value X is left as it is (the
\* whole container with it) under override=False and is replaced by Y under
\* override=True; a path at which nothing is stored receives Y whatever the
\* flag.
C2_OverridePolicyAnyValue ==
    CalledSet =>
        IF Holds(lastCall.before, lastCall.path)
        THEN IF lastCall.override
             THEN /\ lastCall.exc = None
                  /\ Holds(nest_dict, lastCall.path)
                  /\ Sub(nest_dict, lastCall.path) = lastCall.value
             ELSE /\ lastCall.exc = None
                  /\ nest_dict = lastCall.before
        ELSE /\ lastCall.exc = None
             /\ Holds(nest_dict, lastCall.path)
             /\ Sub(nest_dict, lastCall.path) = lastCall.value

\* every key of the path before the last one is missing or holds a dict
Walkable(t, p) ==
    \A i \in 1..(Len(p) - 1) :
        SubSeq(p, 1, i) \in DOMAIN t => t[SubSeq(p, 1, i)] = "DICT"

\* C2 as amended: the policy holds for a destination holding a value X that
\* is not empty ({}, [], '' and None count as nothing stored), and a path at
\* which nothing or an empty value is stored receives Y whatever the flag,
\* provided the keys before the last one are missing or hold dicts.
C2_OverridePolicy ==
    CalledSet =>
        IF ~Walkable(lastCall.before, lastCall.path)
        THEN lastCall.exc = "TypeError" /\ nest_dict = lastCall.before
        ELSE /\ lastCall.exc = None
             /\ IF /\ Holds(lastCall.before, lastCall.path)
                   /\ ~IsEmptyValue(Sub(lastCall.before, lastCall.path))
                   /\ ~lastCall.override
                THEN nest_dict = lastCall.before
                ELSE /\ Holds(nest_dict, lastCall.path)
                     /\ Sub(nest_dict, lastCall.path) = lastCall.value
                     /\ \A q \in DOMAIN lastCall.before :
                          ~IsPrefix(lastCall.path, q) /\ ~IsPrefix(q, lastCall.path)
                              => q \in DOMAIN nest_dict /\ nest_dict[q] = lastCall.before[q]

\* C2 witness: a call with override=False met a non-empty value and left it.
C2_Witness ==
    /\ CalledSet
    /\ ~lastCall.override
    /\ lastCall.path = <<"a", "b">>
    /\ Holds(lastCall.before, lastCall.path)
    /\ Sub(lastCall.before, lastCall.path) = Leaf("'x'")
    /\ lastCall.value = Leaf("'y'")
    /\ nest_dict = lastCall.before

(***************************************************************************)
(* Claims about reading back what was set                                  *)
(***************************************************************************)
CalledSetWithUnits ==
    lastCall.fn = "set_nested_dict_value_with_units" /\ lastCall.value # NoneValue

CalledGet == lastCall.fn = "get_nested_dict_value_by_path"

\* the conversion function of the last call does not raise on its value
ConvertsFine == lastCall.conv = None \/ ApplyHalve(lastCall.value).exc = None

\* {'value': converted value}, with the unit under 'units' only when given
ExpectedWrapped ==
    LET converted == IF lastCall.conv = None THEN lastCall.value
                     ELSE ApplyHalve(lastCall.value).val
    IN  IF lastCall.units = None
        THEN Dict({<<"value", converted>>})
        ELSE Dict({<<"value", converted>>, <<"units", Leaf(lastCall.units)>>})

\* get(container, path) after the last call returns v
ReadsBack(v) ==
    /\ lastCall.exc = None
    /\ get_nested_dict_value_by_path(nest_dict, lastCall.path, None).exc = None
    /\ get_nested_dict_value_by_path(nest_dict, lastCall.path, None).val = v

\* C15 as stated: for every path and every non-None value, when nothing is
\* stored at the path or override=True, get after set returns the value, and
\* after set_nested_dict_value_with_units (whose conversion succeeds) the
\* wrapped mapping.
C15_RoundTripAnyValue ==
    /\ (CalledSet /\ (~Holds(lastCall.before, lastCall.path) \/ lastCall.override))
          => ReadsBack(lastCall.value)
    /\ (CalledSetWithUnits /\ ConvertsFine
            /\ (~Holds(lastCall.before, lastCall.path) \/ lastCall.override))
          => ReadsBack(ExpectedWrapped)

\* a value get reports as None although it is stored
EmptyValues == {EmptyDict, Leaf("[]"), Leaf("''")}

\* C15 as amended: the round trip holds when the keys of the path before the
\* last one are missing or hold dicts and nothing (or only an empty value) is
\* stored at the path or override=True: get after set returns the value if
\* the value is not empty ({}, [], ''), and after
\* set_nested_dict_value_with_units whose conversion succeeds it returns the
\* wrapped mapping, for every non-None value.
C15_RoundTrip ==
    LET free == \/ ~Holds(lastCall.before, lastCall.path)
                \/ Sub(lastCall.before, lastCall.path) \in EmptyValues \cup {NoneValue}
                \/ lastCall.override
    IN  /\ (CalledSet /\ Walkable(lastCall.before, lastCall.path) /\ free
                /\ lastCall.value \notin EmptyValues)
              => ReadsBack(lastCall.value)
        /\ (CalledSetWithUnits /\ ConvertsFine
                /\ Walkable(lastCall.before, lastCall.path) /\ free)
              => ReadsBack(ExpectedWrapped)

\* a converted value with its unit was set over an older value and read back
C15_Witness ==
    /\ CalledSetWithUnits
    /\ lastCall.override
    /\ lastCall.conv = "halve"
    /\ lastCall.units = "'nm'"
    /\ lastCall.path = <<"a", "b">>
    /\ Holds(lastCall.before, lastCall.path)
    /\ Sub(lastCall.before, lastCall.path) = Leaf("'x'")
    /\ Sub(nest_dict, <<"a", "b", "value">>) = Leaf("0.75")
    /\ Sub(nest_dict, <<"a", "b", "units">>) = Leaf("'nm'")

\* C16: a setter called with value None leaves the whole container as it
\* was: no key is added, no dict is created along the path, get at every
\* path returns what it returned before, nothing is raised, and
\* set_nested_dict_value_with_units does not call the conversion function.
C16_NoneIsNoOp ==
    (lastCall.fn \in {"set_nested_dict_value", "set_nested_dict_value_with_units"}
        /\ lastCall.value = NoneValue) =>
        /\ lastCall.exc = None
        /\ DOMAIN nest_dict = DOMAIN lastCall.before
        /\ nest_dict = lastCall.before
        /\ \A q \in SetPaths :
              get_nested_dict_value_by_path(nest_dict, q, None) =
                  get_nested_dict_value_by_path(lastCall.before, q, None)
        /\ ~lastCall.fn_called

\* None was set with units and a conversion function at a path whose keys
\* the container does not hold
C16_Witness ==
    /\ lastCall.fn = "set_nested_dict_value_with_units"
    /\ lastCall.value = NoneValue
    /\ lastCall.conv = "halve"
    /\ lastCall.path = <<"a", "b">>
    /\ lastCall.before = EmptyDict
    /\ nest_dict = EmptyDict

\* C17: get_nested_dict_value_by_path never raises: when a key of the path
\* is missing, or the value reached before the last key is not a dict, it
\* returns None.
C17_GetNeverRaises ==
    CalledGet =>
        /\ lastCall.exc = None
        /\ ~Holds(lastCall.before, lastCall.path) => lastCall.returned = NoneValue

\* C18: when the value stored at the path is {}, [] or '',
\* get_nested_dict_value_by_path returns None and does not apply cast.
C18_EmptyCoercedToNone ==
    (CalledGet /\ Holds(lastCall.before, lastCall.path)
        /\ Sub(lastCall.before, lastCall.path) \in {EmptyDict, Leaf("[]"), Leaf("''")}) =>
        /\ lastCall.exc = None
        /\ lastCall.returned = NoneValue
        /\ ~lastCall.fn_called

\* get with cast=float found '' two keys deep and returned None
C18_Witness ==
    /\ CalledGet
    /\ lastCall.cast = "float"
    /\ lastCall.path = <<"a", "b">>
    /\ Holds(lastCall.before, lastCall.path)
    /\ Sub(lastCall.before, lastCall.path) = Leaf("''")
    /\ lastCall.returned = NoneValue

\* C29: set_nested_dict_value takes a destination that holds '', [] or {}
\* for absent: a value other than None is stored there under override=False
\* as under override=True, and the rest of the container is left as it was.
C29_EmptyDestinationIsAbsent ==
    (CalledSet /\ ~lastCall.override
        /\ Holds(lastCall.before, lastCall.path)
        /\ Sub(lastCall.before, lastCall.path) \in {EmptyDict, Leaf("[]"), Leaf("''")}) =>
        /\ lastCall.exc = None
        /\ Holds(nest_dict, lastCall.path)
        /\ Sub(nest_dict, lastCall.path) = lastCall.value
        /\ \A q \in DOMAIN lastCall.before :
              ~IsPrefix(lastCall.path, q) /\ ~IsPrefix(q, lastCall.path)
                  => q \in DOMAIN nest_dict /\ nest_dict[q] = lastCall.before[q]

\* 'y' was set without override two keys deep, where '' was stored
C29_Witness ==
    /\ CalledSet
    /\ ~lastCall.override
    /\ lastCall.path = <<"a", "b">>
    /\ Holds(lastCall.before, lastCall.path)
    /\ Sub(lastCall.before, lastCall.path) = Leaf("''")
    /\ lastCall.value = Leaf("'y'")
    /\ Sub(nest_dict, lastCall.path) = Leaf("'y'")

(***************************************************************************)
(* map_dict_values                                                         *)
(***************************************************************************)
\* the mapping rules a list is made of; override is "absent" when the rule
\* has no 'override' key
SourcePaths == {<<"t">>, <<"name">>, <<"blank">>, <<"missing">>}
DestPaths == {<<"a">>, <<"a", "b">>}
MappingElements ==
    [source_path : SourcePaths, dest_path : DestPaths, cast_fn : {None, "float"},
     units : {None, "'nm'"}, conv_fn : {None, "halve"},
     override : {"True", "False", "absent"}]

\* the destinations a mapping starts from
MapInitialDicts ==
    { EmptyDict,
      Dict({<<"a", EmptyDict>>}),
      Dict({<<"a", Dict({<<"b", Leaf("''")>>})>>}),
      Dict({<<"a", Dict({<<"b", ToSet(Leaf("'old'"), None)>>})>>}),
      Dict({<<"a", Leaf("'x'")>>}) }

\* `override=m['override']`
RuleOverrideIgnored(m) == FALSE
RuleOverride(m) == m.override = "True"

\* the cast of get_nested_dict_value_by_path raised on the source value of m
\* and was caught there
CastFailed(src, m) ==
    LET raw == get_nested_dict_value_by_path(src, m.source_path, None) IN
    /\ get_nested_dict_value_by_path(src, m.source_path, m.cast_fn).cast_called
    /\ Apply(m.cast_fn, raw.val).exc # None

\* one iteration of `for m in mapping`: [exc, dict, to_set, fn_called]
ApplyRule(src, dst, m) ==
    LET value == get_nested_dict_value_by_path(src, m.source_path, m.cast_fn) IN
    IF value.exc # None
    THEN [exc |-> value.exc, dict |-> dst, to_set |-> NoneValue, fn_called |-> FALSE]
    ELSE IF m.override = "absent"
    THEN [exc |-> "KeyError", dict |-> dst, to_set |-> NoneValue, fn_called |-> FALSE]
    ELSE set_nested_dict_value_with_units(dst, m.dest_path, value.val, m.units,
                                          RuleOverride(m), m.conv_fn)

MapInit ==
    /\ nest_dict \in MapInitialDicts
    /\ source_dict = SourceDict
    /\ dpc = "mapping"
    /\ calls = 0
    /\ lastCall = NoCall
    /\ dest0 = nest_dict
    /\ mapLog = <<>>
    /\ mapExc = NoExc

\* map_dict_values applies the next rule of its list
MapRule ==
    /\ dpc = "mapping"
    /\ Len(mapLog) < MaxRules
    /\ \E m \in MappingElements :
          LET r == ApplyRule(source_dict, nest_dict, m) IN
          /\ nest_dict' = r.dict
          /\ mapLog' = Append(mapLog, [dest_path |-> m.dest_path, to_set |-> r.to_set,
                                       override |-> m.override, exc |-> r.exc])
          /\ mapExc' = IF r.exc = None THEN NoExc
                       ELSE [kind |-> r.exc,
                             cast_failed |-> CastFailed(source_dict, m)]
          /\ dpc' = IF r.exc # None THEN "raised" ELSE "mapping"
    /\ UNCHANGED <<source_dict, calls, lastCall, dest0>>
    /\ UNCHANGED notDictVars

\* the list is exhausted: map_dict_values returns
MapReturn ==
    /\ dpc = "mapping"
    /\ dpc' = "returned"
    /\ UNCHANGED <<nest_dict, source_dict, calls, lastCall, dest0, mapLog, mapExc>>
    /\ UNCHANGED notDictVars

MapNext ==
    \/ MapRule
    \/ MapReturn


(***************************************************************************)
(* Claims about map_dict_values                                            *)
(***************************************************************************)
\* the rules applied so far whose source value was not absent, in list order
Writers == SelectSeq(mapLog, LAMBDA e : e.to_set # NoneValue)

OverridingWriters == SelectSeq(Writers, LAMBDA e : e.override = "True")

\* all rules applied so far target the path q, at which dest0 stores nothing
SameAbsentTarget(q) ==
    /\ mapLog # <<>>
    /\ \A i \in DOMAIN mapLog : mapLog[i].dest_path = q
    /\ ~Holds(dest0, q)

\* C3: rules are applied in list order: for rules that all target one
\* destination path, absent at first, the value stored is that of the last
\* rule with override=True and a source value if there is one, else that of
\* the first rule with a source value.
C3_ListOrderDecides ==
    \A q \in DestPaths :
        (SameAbsentTarget(q) /\ mapExc.kind = None /\ Writers # <<>>) =>
            /\ Holds(nest_dict, q)
            /\ Sub(nest_dict, q) =
                  IF OverridingWriters # <<>>
                  THEN OverridingWriters[Len(OverridingWriters)].to_set
                  ELSE Writers[1].to_set

\* C3 witness: two rules wrote different values to the absent path, the first
\* without override and the second with it: the second rule's value is stored.
C3_Witness ==
    /\ SameAbsentTarget(<<"a", "b">>)
    /\ dpc = "returned"
    /\ Len(Writers) >= 2
    /\ Len(OverridingWriters) = 1
    /\ Writers[1].override = "False"
    /\ Writers[2].override = "True"
    /\ Writers[1].to_set # Writers[2].to_set
    /\ Sub(nest_dict, <<"a", "b">>) = Writers[2].to_set

\* the setter itself raised, on a destination path that runs through a value
\* that is not a dict
SetterRaised(e) == e.exc # None /\ e.to_set # NoneValue

\* C19: a rule whose cast function raised on the resolved source value does
\* not make map_dict_values raise: the rule goes on with the uncast value,
\* whether or not it carries a conversion function, so that nothing but the
\* setter's own refusal of the destination path or a missing 'override' key
\* ends the batch at such a rule.
C19_CastFailureNeverFatal ==
    (dpc = "raised" /\ mapExc.cast_failed) =>
        \/ mapLog[Len(mapLog)].override = "absent"
        \/ SetterRaised(mapLog[Len(mapLog)])

(***************************************************************************)
(*                          POSTFIX GROUPING                               *)
(*                                                                         *)
(* A str is the sequence of its characters.                                *)
(***************************************************************************)
\* ord(c) of the characters the paths are made of
Ord(c) ==
    CASE c = "." -> 46 [] c = "/" -> 47 [] c = "1" -> 49 [] c = "2" -> 50
      [] c = "A" -> 65 [] c = "B" -> 66 [] c = "C" -> 67 [] c = "I" -> 73
      [] c = "N" -> 78 [] c = "O" -> 79 [] c = "R" -> 82 [] c = "T" -> 84
      [] c = "U" -> 85
      [] c = "a" -> 97 [] c = "b" -> 98 [] c = "c" -> 99 [] c = "d" -> 100
      [] c = "e" -> 101 [] c = "i" -> 105 [] c = "n" -> 110 [] c = "o" -> 111
      [] c = "p" -> 112 [] c = "r" -> 114 [] c = "t" -> 116 [] c = "u" -> 117
      [] c = "w" -> 119 [] c = "x" -> 120

\* str.lower(), character by character
LowerChar(c) ==
    CASE c = "A" -> "a" [] c = "B" -> "b" [] c = "C" -> "c" [] c = "I" -> "i"
      [] c = "N" -> "n" [] c = "O" -> "o" [] c = "R" -> "r" [] c = "T" -> "t"
      [] c = "U" -> "u" [] OTHER -> c

Lower(str) == [i \in DOMAIN str |-> LowerChar(str[i])]

\* str.startswith(n)
StartsWith(str, n) == Len(n) <= Len(str) /\ SubSeq(str, 1, Len(n)) = n

\* str.rfind('/') + 1
AfterLastSlash(path) ==
    IF \E i \in DOMAIN path : path[i] = "/"
    THEN CHOOSE i \in DOMAIN path :
            path[i] = "/" /\ \A j \in DOMAIN path : path[j] = "/" => j <= i
    ELSE 0

\* os.path.basename
basename(path) == SubSeq(path, AfterLastSlash(path) + 1, Len(path))

\* head.rstrip('/')
RECURSIVE RStripSlash(_)
RStripSlash(str) ==
    IF str # <<>> /\ str[Len(str)] = "/"
    THEN RStripSlash(SubSeq(str, 1, Len(str) - 1))
    ELSE str

\* os.path.dirname
dirname(path) ==
    LET head == SubSeq(path, 1, AfterLastSlash(path)) IN
    IF head # <<>> /\ \E i \in DOMAIN head : head[i] # "/"
    THEN RStripSlash(head)
    ELSE head

\* a < b for two str
RECURSIVE StrLess(_, _)
StrLess(a, b) ==
    IF b = <<>> THEN FALSE
    ELSE IF a = <<>> THEN TRUE
    ELSE IF a[1] # b[1] THEN Ord(a[1]) < Ord(b[1])
    ELSE StrLess(Tail(a), Tail(b))

\* (d1, ext1) < (d2, ext2) for two sort keys
KeyLess(k1, k2) ==
    IF k1[1] # k2[1] THEN StrLess(k1[1], k2[1]) ELSE StrLess(k1[2], k2[2])

\* `matches = [name_lower.startswith(n) for n in vocabulary]`
Matches(filename, vocab) ==
    [i \in DOMAIN vocab |-> StartsWith(Lower(basename(filename)), vocab[i])]

\* `any(matches)`
AnyMatch(filename, vocab) == \E i \in DOMAIN vocab : Matches(filename, vocab)[i]

\* `matches.index(True)`
LongestMatchId(filename, vocab) ==
    CHOOSE i \in DOMAIN vocab :
        /\ Matches(filename, vocab)[i]
        /\ \A j \in DOMAIN vocab :
              Matches(filename, vocab)[j] =>
                  \/ Len(vocab[j]) < Len(vocab[i])
                  \/ Len(vocab[j]) = Len(vocab[i]) /\ i <= j
MatchId(filename, vocab) ==
    CHOOSE i \in DOMAIN vocab :
        Matches(filename, vocab)[i] /\ \A j \in 1..(i - 1) : ~Matches(filename, vocab)[j]

\* the entry (filename, vtype, (d, ext)) appended for a matching file
Entry(filename, vocab) ==
    LET vtype == vocab[MatchId(filename, vocab)]
        name == basename(filename)
    IN  [path |-> filename, vtype |-> vtype,
         key |-> <<dirname(filename), SubSeq(name, Len(vtype) + 1, Len(name))>>]

\* the loop `for filename in files` building matchable_files
RECURSIVE Scan(_, _)
Scan(fs, vocab) ==
    IF fs = <<>> THEN <<>>
    ELSE IF AnyMatch(fs[1], vocab)
    THEN <<Entry(fs[1], vocab)>> \o Scan(Tail(fs), vocab)
    ELSE Scan(Tail(fs), vocab)

\* sorted(..., key=sort_key) is stable: an entry goes behind the entries whose
\* key is not greater
RECURSIVE InsertByKey(_, _)
InsertByKey(e, sorted) ==
    IF sorted = <<>> THEN <<e>>
    ELSE IF KeyLess(e.key, sorted[1].key) THEN <<e>> \o sorted
    ELSE <<sorted[1]>> \o InsertByKey(e, Tail(sorted))

RECURSIVE SortedByKey(_)
SortedByKey(es) ==
    IF es = <<>> THEN <<>>
    ELSE InsertByKey(es[Len(es)], SortedByKey(SubSeq(es, 1, Len(es) - 1)))

\* the entries itertools.groupby is given: sorted by key
UnsortedEntries(fs, vocab) == Scan(fs, vocab)
GroupbyInput(fs, vocab) == SortedByKey(Scan(fs, vocab))

\* how many leading entries share the key of the first: one run of groupby
RECURSIVE RunLength(_)
RunLength(es) ==
    IF Len(es) <= 1 THEN Len(es)
    ELSE IF es[2].key = es[1].key THEN 1 + RunLength(Tail(es))
    ELSE 1

\* `[x[0] for x in group]` of the first run
FirstGroup(es) == [i \in 1..RunLength(es) |-> es[i].path]

\* everything group_by_postfix yields, as a list of groups
RECURSIVE GroupRuns(_)
GroupRuns(es) ==
    IF es = <<>> THEN <<>>
    ELSE <<FirstGroup(es)>> \o GroupRuns(SubSeq(es, RunLength(es) + 1, Len(es)))

group_by_postfix(fs, vocab) == GroupRuns(GroupbyInput(fs, vocab))

\* files in one list of the inputs at most
MaxFiles == 3

Path(d, name) == d \o <<"/">> \o name

\* the files and vocabularies the inputs are drawn from
FilePool ==
    { Path(<<"/", "d">>, n) :
        n \in { <<"A", ".", "1">>, <<"B", ".", "1">>, <<"A", ".", "2">>,
                <<"B", ".", "2">>, <<"C", ".", "1">>, <<"a", ".", "1">>,
                <<"a", "b", ".", "1">> } }
        \cup { Path(<<"/", "e">>, <<"A", ".", "1">>) }

\* the directory of the docstring: A.1, B.1, A.2, B.2 and C.1
DocstringFiles ==
    << Path(<<"/", "d">>, <<"A", ".", "1">>), Path(<<"/", "d">>, <<"B", ".", "1">>),
       Path(<<"/", "d">>, <<"A", ".", "2">>), Path(<<"/", "d">>, <<"B", ".", "2">>),
       Path(<<"/", "d">>, <<"C", ".", "1">>) >>

Vocabularies ==
    { <<>>, << <<"a">> >>, << <<"a">>, <<"b">> >>, << <<"A">>, <<"B">> >>,
      << <<"a">>, <<"a", "b">> >>, << <<"a", "b">>, <<"a">> >> }

\* the lists of distinct files of at most MaxFiles files
FileLists ==
    UNION { {l \in [1..n -> FilePool] : \A i, j \in 1..n : l[i] = l[j] => i = j} :
            n \in 0..MaxFiles }

PfxInit ==
    /\ files \in FileLists \cup {DocstringFiles}
    /\ vocabulary \in Vocabularies
    /\ gpc = "start"
    /\ matchable_files = <<>>
    /\ groups = <<>>

PfxIdle ==
    /\ files = <<>>
    /\ vocabulary = <<>>
    /\ gpc = "off"
    /\ matchable_files = <<>>
    /\ groups = <<>>

\* the first next(): the body runs down to the groupby loop
ScanFiles ==
    /\ gpc = "start"
    /\ matchable_files' = GroupbyInput(files, vocabulary)
    /\ gpc' = "groupby"
    /\ UNCHANGED <<files, vocabulary, groups>>
    /\ UNCHANGED notPfxVars

\* groupby produces the next run, which is yielded
YieldGroup ==
    /\ gpc = "groupby"
    /\ matchable_files # <<>>
    /\ groups' = Append(groups, FirstGroup(matchable_files))
    /\ matchable_files' =
          SubSeq(matchable_files, RunLength(matchable_files) + 1, Len(matchable_files))
    /\ UNCHANGED <<files, vocabulary, gpc>>
    /\ UNCHANGED notPfxVars

\* groupby is exhausted: StopIteration
EndGroups ==
    /\ gpc = "groupby"
    /\ matchable_files = <<>>
    /\ gpc' = "done"
    /\ UNCHANGED <<files, vocabulary, matchable_files, groups>>
    /\ UNCHANGED notPfxVars

PfxNext ==
    \/ ScanFiles
    \/ YieldGroup
    \/ EndGroups



(***************************************************************************)
(* Claims about group_by_postfix                                           *)
(***************************************************************************)
\* the files of a group, and the groups yielded so far, as sets
AsSet(group) == Range(group)
YieldedGroups == {AsSet(groups[i]) : i \in DOMAIN groups}

\* the files of the input the scan keeps, and the key it gives a file
MatchableFiles == {f \in Range(files) : AnyMatch(f, vocabulary)}
KeyOf(f) == Entry(f, vocabulary).key

\* the equivalence classes of the matchable files under equality of the key
KeyClasses ==
    { {g \in MatchableFiles : KeyOf(g) = KeyOf(f)} : f \in MatchableFiles }

\* every ordering of the input list
FilePermutations ==
    { [i \in DOMAIN files |-> files[pi[i]]] :
        pi \in {q \in [DOMAIN files -> DOMAIN files] :
                    \A i, j \in DOMAIN files : q[i] = q[j] => i = j} }

GroupSetOf(fs) ==
    LET gs == group_by_postfix(fs, vocabulary) IN {AsSet(gs[i]) : i \in DOMAIN gs}

StartsWithIgnoringCase(f, n) == StartsWith(Lower(basename(f)), Lower(n))

\* C5: a file is matchable whenever its basename starts, ignoring letter
\* case, with some vocabulary entry, whatever the case of the entry: the
\* exhausted generator has yielded exactly those files, and for A.1, B.1,
\* A.2, B.2, C.1 with vocabulary ["A", "B"] it has yielded exactly the
\* groups (A.1, B.1) and (A.2, B.2).
C5_CaseInsensitiveMatch ==
    gpc = "done" =>
        /\ UNION YieldedGroups =
              {f \in Range(files) :
                  \E i \in DOMAIN vocabulary : StartsWithIgnoringCase(f, vocabulary[i])}
        /\ (files = DocstringFiles /\ vocabulary = << <<"A">>, <<"B">> >>) =>
              YieldedGroups = { {DocstringFiles[1], DocstringFiles[2]},
                                {DocstringFiles[3], DocstringFiles[4]} }

\* the positions of the vocabulary entries the lowercase basename starts with
MatchingEntries(f) ==
    {i \in DOMAIN vocabulary : StartsWith(Lower(basename(f)), vocabulary[i])}

\* the basename with the first matching entry's length stripped
PostfixByFirstEntry(f) ==
    LET first == CHOOSE i \in MatchingEntries(f) : \A j \in MatchingEntries(f) : i <= j
    IN  SubSeq(basename(f), Len(vocabulary[first]) + 1, Len(basename(f)))

\* C28: a file whose lowercase basename starts with more than one vocabulary
\* entry gets its postfix from the entry that comes first in the vocabulary,
\* not from the longest: its key is its directory with the basename less
\* that entry's length, and it is grouped with exactly the files of its
\* directory that have the same postfix.
C28_FirstVocabularyEntryWins ==
    /\ \A k \in DOMAIN matchable_files :
          LET e == matchable_files[k] IN
          Cardinality(MatchingEntries(e.path)) > 1 =>
              e.key = <<dirname(e.path), PostfixByFirstEntry(e.path)>>
    /\ gpc = "done" =>
          \A f \in Range(files) :
              Cardinality(MatchingEntries(f)) > 1 =>
                  {g \in Range(files) :
                      /\ MatchingEntries(g) # {}
                      /\ dirname(g) = dirname(f)
                      /\ PostfixByFirstEntry(g) = PostfixByFirstEntry(f)} \in YieldedGroups

\* with the vocabulary ["a", "ab"], a.1 and ab.1 of one directory came out
\* in two groups: ab.1 was keyed "b.1", not ".1"
C28_Witness ==
    /\ gpc = "done"
    /\ vocabulary = << <<"a">>, <<"a", "b">> >>
    /\ Range(files) = {Path(<<"/", "d">>, <<"a", ".", "1">>),
                       Path(<<"/", "d">>, <<"a", "b", ".", "1">>)}
    /\ YieldedGroups = {{Path(<<"/", "d">>, <<"a", ".", "1">>)},
                        {Path(<<"/", "d">>, <<"a", "b", ".", "1">>)}}

(***************************************************************************)
(*                         DFTExtractor.group                              *)
(***************************************************************************)
\* the files that are known to the VASP parser
_vasp_file_names ==
    << <<"o", "u", "t", "c", "a", "r">>,
       <<"i", "n", "c", "a", "r">>,
       <<"c", "h", "g", "c", "a", "r">>,
       <<"w", "a", "v", "e", "c", "a", "r">>,
       <<"w", "a", "v", "c", "a", "r">>,
       <<"o", "s", "z", "i", "c", "a", "r">>,
       <<"i", "b", "z", "c", "a", "r">>,
       <<"k", "p", "o", "i", "n", "t", "s">>,
       <<"d", "o", "s", "c", "a", "r">>,
       <<"p", "o", "s", "c", "a", "r">>,
       <<"c", "o", "n", "t", "c", "a", "r">>,
       <<"v", "a", "s", "p", "_", "r", "u", "n", ".", "x", "m", "l">>,
       <<"x", "d", "a", "t", "c", "a", "r">> >>

\* the working directory and the home directory of the process
getcwd == <<"/", "w">>
HomeDir == <<"/", "x">>

\* os.path.expanduser
expanduser(path) ==
    IF path # <<>> /\ path[1] = "~" THEN HomeDir \o Tail(path) ELSE path

\* os.path.normpath of an absolute path without "." and "..": no empty
\* component, no trailing slash
RECURSIVE normpath(_)
normpath(path) ==
    IF path = <<>> THEN <<>>
    ELSE IF path[1] = "/" /\ (Len(path) = 1 \/ path[2] = "/")
    THEN IF Len(path) = 1 THEN <<>> ELSE normpath(Tail(path))
    ELSE <<path[1]>> \o normpath(Tail(path))

\* os.path.abspath
abspath(path) ==
    IF path # <<>> /\ path[1] = "/"
    THEN normpath(path)
    ELSE normpath(getcwd \o <<"/">> \o path)

\* preprocess_paths, of the paths of a collection
preprocess_path(f) == abspath(expanduser(f))

\* files.difference_update(group)
KeepMatched(fs, group) == fs
RemoveMatched(fs, group) == fs \ Range(group)

\* `(os.path.dirname(f), f)` as an entry sorted by the pair
FileAndDir(f) == [path |-> f, key |-> <<dirname(f), f>>]

\* sorted(file_and_dir), what the groupby of _group_pwscf is given
SortedFileAndDir(fs) ==
    LET order == CHOOSE o \in Orderings(fs) : TRUE
    IN  SortedByKey([i \in DOMAIN order |-> FileAndDir(order[i])])

\* one run of groupby(..., key=itemgetter(0)): leading entries of one directory
DirRunOfOne(es) == IF es = <<>> THEN 0 ELSE 1
RECURSIVE DirRunLength(_)
DirRunLength(es) ==
    IF Len(es) <= 1 THEN Len(es)
    ELSE IF es[2].key[1] = es[1].key[1] THEN 1 + DirRunLength(Tail(es))
    ELSE 1

FirstDirGroup(es) == [i \in 1..DirRunLength(es) |-> es[i].path]

\* files in one call at most
MaxDftFiles == 3

DftFilePool ==
    { <<"O", "U", "T", "C", "A", "R", ".", "1">>,
      <<"/", "w", "/", "O", "U", "T", "C", "A", "R", ".", "1">>,
      <<"/", "w", "/", "I", "N", "C", "A", "R", ".", "1">>,
      <<"/", "w", "/", "O", "U", "T", "C", "A", "R", ".", "2">>,
      <<"/", "w", "/", "/", "p", "w", ".", "i", "n">>,
      <<"/", "x", "/", "p", "w", ".", "o", "u", "t">>,
      <<"/", "w", "/", "p", "w", ".", "o", "u", "t">>,
      <<"~", "/", "I", "N", "C", "A", "R">> }

DftInit ==
    /\ dft_input \in {fs \in SUBSET DftFilePool : Cardinality(fs) <= MaxDftFiles}
    /\ dft_files = {}
    /\ dft_pc = "start"
    /\ vasp_pending = <<>>
    /\ pwscf_pending = <<>>
    /\ dft_out = <<>>

DftIdle ==
    /\ dft_input = {}
    /\ dft_files = {}
    /\ dft_pc = "off"
    /\ vasp_pending = <<>>
    /\ pwscf_pending = <<>>
    /\ dft_out = <<>>

\* where a next() resumes the VASP loop: on the first next() the set is built
\* and group_by_postfix scans it, in whatever order the set iterates
VaspResume ==
    IF dft_pc = "start"
    THEN LET fs == {preprocess_path(f) : f \in dft_input}
         IN  {[files |-> fs, pending |-> GroupbyInput(o, _vasp_file_names)] :
                 o \in Orderings(fs)}
    ELSE {[files |-> dft_files, pending |-> vasp_pending]}

\* next() while the VASP loop has a group: remove its files, yield it
YieldVaspGroup ==
    /\ dft_pc \in {"start", "vasp"}
    /\ \E r \in VaspResume :
          /\ r.pending # <<>>
          /\ LET group == FirstGroup(r.pending) IN
                /\ dft_files' = RemoveMatched(r.files, group)
                /\ dft_out' = Append(dft_out, [loop |-> "vasp", group |-> group])
          /\ vasp_pending' =
                SubSeq(r.pending, RunLength(r.pending) + 1, Len(r.pending))
    /\ dft_pc' = "vasp"
    /\ UNCHANGED <<dft_input, pwscf_pending>>
    /\ UNCHANGED notDftVars

\* next() when the VASP loop is exhausted: _group_pwscf sorts what is left of
\* the set and its first group is yielded, or there is none
StartPwscf ==
    /\ dft_pc \in {"start", "vasp"}
    /\ \E r \in VaspResume :
          /\ r.pending = <<>>
          /\ dft_files' = r.files
          /\ LET sorted == SortedFileAndDir(r.files) IN
                IF sorted = <<>>
                THEN /\ dft_pc' = "done"
                     /\ UNCHANGED <<pwscf_pending, dft_out>>
                ELSE /\ dft_pc' = "pwscf"
                     /\ dft_out' = Append(dft_out,
                            [loop |-> "pwscf", group |-> FirstDirGroup(sorted)])
                     /\ pwscf_pending' =
                            SubSeq(sorted, DirRunLength(sorted) + 1, Len(sorted))
    /\ UNCHANGED <<dft_input, vasp_pending>>
    /\ UNCHANGED notDftVars

\* next() while the PWSCF loop has a group
YieldPwscfGroup ==
    /\ dft_pc = "pwscf"
    /\ pwscf_pending # <<>>
    /\ dft_out' = Append(dft_out,
            [loop |-> "pwscf", group |-> FirstDirGroup(pwscf_pending)])
    /\ pwscf_pending' =
            SubSeq(pwscf_pending, DirRunLength(pwscf_pending) + 1, Len(pwscf_pending))
    /\ UNCHANGED <<dft_input, dft_files, dft_pc, vasp_pending>>
    /\ UNCHANGED notDftVars

\* next() when the PWSCF loop is exhausted: StopIteration
EndPwscf ==
    /\ dft_pc = "pwscf"
    /\ pwscf_pending = <<>>
    /\ dft_pc' = "done"
    /\ UNCHANGED <<dft_input, dft_files, vasp_pending, pwscf_pending, dft_out>>
    /\ UNCHANGED notDftVars

DftNext ==
    \/ YieldVaspGroup
    \/ StartPwscf
    \/ YieldPwscfGroup
    \/ EndPwscf

(***************************************************************************)
(* Claims about DFTExtractor.group                                         *)
(***************************************************************************)
VaspYields == {i \in DOMAIN dft_out : dft_out[i].loop = "vasp"}
PwscfYields == {i \in DOMAIN dft_out : dft_out[i].loop = "pwscf"}

\* the files of the call that the VASP vocabulary matches
VaspFiles ==
    {f \in {preprocess_path(g) : g \in dft_input} : AnyMatch(f, _vasp_file_names)}

\* C6: whatever prefix of the sequence the consumer has pulled, every group
\* of the VASP loop was yielded before any group of the fallback loop, once a
\* fallback group is out every file the VASP vocabulary matches has been
\* yielded in a VASP group, and no file of a VASP group is in a fallback
\* group.
C6_VaspPassIsExclusive ==
    /\ \A i \in VaspYields : \A j \in PwscfYields : i < j
    /\ PwscfYields # {} =>
          VaspFiles = UNION {Range(dft_out[i].group) : i \in VaspYields}
    /\ \A i \in VaspYields : \A j \in PwscfYields :
          Range(dft_out[i].group) \cap Range(dft_out[j].group) = {}

\* a VASP group and then a fallback group of the same directory
C6_Witness ==
    \E i \in VaspYields : \E j \in PwscfYields :
        \E f \in Range(dft_out[i].group) : \E g \in Range(dft_out[j].group) :
            dirname(f) = dirname(g)

\* the distinct absolute paths of the call
InputPaths == {preprocess_path(g) : g \in dft_input}

\* the basename starts, whatever its case, with a name known to VASP
StartsWithVaspName(f) ==
    \E i \in DOMAIN _vasp_file_names :
        StartsWith(Lower(basename(f)), _vasp_file_names[i])

\* what follows the VASP name in the basename
VaspPostfix(f) ==
    LET i == CHOOSE j \in DOMAIN _vasp_file_names :
                 StartsWith(Lower(basename(f)), _vasp_file_names[j])
    IN  SubSeq(basename(f), Len(_vasp_file_names[i]) + 1, Len(basename(f)))

\* the group a file belongs in
ExpectedDftGroup(f) ==
    IF StartsWithVaspName(f)
    THEN {g \in InputPaths : /\ StartsWithVaspName(g)
                             /\ dirname(g) = dirname(f)
                             /\ VaspPostfix(g) = VaspPostfix(f)}
    ELSE {g \in InputPaths : ~StartsWithVaspName(g) /\ dirname(g) = dirname(f)}

\* C30: the groups of one call of DFTExtractor.group partition the distinct
\* absolute input paths: no group is empty or lists a file twice, no two
\* groups share a file, and once the generator is exhausted every input path
\* is in a group: a file whose basename starts with a VASP name in the VASP
\* group of its directory and postfix, any other file in the one fallback
\* group of its directory.
C30_GroupsPartitionInput ==
    /\ \A i \in DOMAIN dft_out :
          /\ dft_out[i].group # <<>>
          /\ Cardinality(Range(dft_out[i].group)) = Len(dft_out[i].group)
          /\ Range(dft_out[i].group) \subseteq InputPaths
          /\ \A f \in Range(dft_out[i].group) :
                /\ Range(dft_out[i].group) = ExpectedDftGroup(f)
                /\ dft_out[i].loop = IF StartsWithVaspName(f) THEN "vasp" ELSE "pwscf"
    /\ \A i, j \in DOMAIN dft_out :
          i # j => Range(dft_out[i].group) \cap Range(dft_out[j].group) = {}
    /\ dft_pc = "done" =>
          UNION {Range(dft_out[i].group) : i \in DOMAIN dft_out} = InputPaths

\* OUTCAR.1 came out in a VASP group and pw.in with pw.out of the same
\* directory in one fallback group
C30_Witness ==
    /\ dft_pc = "done"
    /\ Len(dft_out) = 2
    /\ dft_out[1].loop = "vasp"
    /\ dft_out[2].loop = "pwscf"
    /\ Len(dft_out[2].group) = 2
    /\ \A f \in Range(dft_out[1].group) \cup Range(dft_out[2].group) :
          dirname(f) = <<"/", "w">>

(***************************************************************************)
(*                        THE DEFAULT group()                              *)
(*                                                                         *)
(* The file system: /w/d holds the file a and the directory s, /w/d/s      *)
(* holds the file b, /w holds the file c; /w/n does not exist.             *)
(***************************************************************************)
Directories == { <<"/", "w", "/", "d">>, <<"/", "w", "/", "d", "/", "s">> }
RegularFiles ==
    { <<"/", "w", "/", "d", "/", "a">>,
      <<"/", "w", "/", "d", "/", "s", "/", "b">>,
      <<"/", "w", "/", "c">> }

\* os.path.isfile, os.path.isdir
isfile(path) == path \in RegularFiles
isdir(path) == path \in Directories

\* os.path.join(fn, f)
join(fn, f) == fn \o <<"/">> \o f

\* the names os.listdir(fn) returns, in no order
Children(fn) ==
    {basename(q) : q \in {r \in Directories \cup RegularFiles : dirname(r) = fn}}

\* a str argument stands for the list of that one path
StrArg(path) == [isstr |-> TRUE, list |-> <<path>>]
ListArg(list) == [isstr |-> FALSE, list |-> list]

\* preprocess_paths
preprocess_paths(arg) == [i \in DOMAIN arg.list |-> preprocess_path(arg.list[i])]

\* BaseExtractor.group (scythe): every listed path is its own group
BaseExtractor_group(arg) ==
    LET fs == preprocess_paths(arg) IN [i \in DOMAIN fs |-> <<fs[i]>>]

\* BaseParser.group (materials_io): files are their own group, directories
\* are listed and each entry grouped in turn; `depth` bounds the recursion
\* by the depth of the file system
RECURSIVE Concat(_)
Concat(seqs) == IF seqs = <<>> THEN <<>> ELSE seqs[1] \o Concat(Tail(seqs))

RECURSIVE BaseParser_group(_, _, _)
BaseParser_group(arg, order, depth) ==
    LET fs == preprocess_paths(arg) IN
    Concat([i \in DOMAIN fs |->
        IF isfile(fs[i]) THEN << <<fs[i]>> >>
        ELSE IF isdir(fs[i]) /\ depth > 0
        THEN Concat([k \in DOMAIN order[fs[i]] |->
                 BaseParser_group(StrArg(join(fs[i], order[fs[i]][k])), order, depth - 1)])
        ELSE <<>>])

\* directories below one another in the file system
TreeDepth == 3

\* paths in one list at most
MaxPaths == 2

PathPool ==
    { <<"/", "w", "/", "d">>,
      <<"/", "w", "/", "/", "d", "/", "a">>,
      <<"/", "w", "/", "d", "/", "s">>,
      <<"c">>,
      <<"/", "w", "/", "n">> }

PathArgs ==
    {StrArg(q) : q \in PathPool}
        \cup {ListArg(l) : l \in UNION { {m \in [1..n -> PathPool] :
                                             \A i, j \in 1..n : m[i] = m[j] => i = j} :
                                         n \in 0..MaxPaths }}

GrpInit ==
    /\ base_class \in {"BaseExtractor", "BaseParser"}
    /\ paths \in PathArgs
    /\ directories \in {None, <<<<"/", "w", "/", "d">>>>}
    /\ base_class = "BaseParser" => directories = None
    /\ listdir_order \in {o \in [Directories -> UNION {Orderings(Children(d)) : d \in Directories}] :
                             \A d \in Directories : o[d] \in Orderings(Children(d))}
    /\ grp_pc = "start"
    /\ grp_pending = <<>>
    /\ grp_out = <<>>

GrpIdle ==
    /\ base_class = "off"
    /\ paths = ListArg(<<>>)
    /\ directories = None
    /\ listdir_order = <<>>
    /\ grp_pc = "off"
    /\ grp_pending = <<>>
    /\ grp_out = <<>>

\* what the loop has to yield when a next() resumes it
GroupResume ==
    IF grp_pc = "start"
    THEN IF base_class = "BaseExtractor"
         THEN BaseExtractor_group(paths)
         ELSE BaseParser_group(paths, listdir_order, TreeDepth)
    ELSE grp_pending

\* next(): the loop yields its next group
YieldDefaultGroup ==
    /\ grp_pc \in {"start", "loop"}
    /\ GroupResume # <<>>
    /\ grp_out' = Append(grp_out, Head(GroupResume))
    /\ grp_pending' = Tail(GroupResume)
    /\ grp_pc' = "loop"
    /\ UNCHANGED <<base_class, paths, directories, listdir_order>>
    /\ UNCHANGED notGrpVars

\* next(): the loop is over, StopIteration
EndDefaultGroups ==
    /\ grp_pc \in {"start", "loop"}
    /\ GroupResume = <<>>
    /\ grp_pc' = "done"
    /\ grp_pending' = <<>>
    /\ UNCHANGED <<base_class, paths, directories, listdir_order, grp_out>>
    /\ UNCHANGED notGrpVars

GrpNext ==
    \/ YieldDefaultGroup
    \/ EndDefaultGroups

(***************************************************************************)
(* Claims about the default group()                                        *)
(***************************************************************************)
\* the regular files at or below a path
RECURSIVE FilesBelow(_, _)
FilesBelow(path, depth) ==
    IF isfile(path) THEN {path}
    ELSE IF isdir(path) /\ depth > 0
    THEN UNION {FilesBelow(join(path, c), depth - 1) : c \in Children(path)}
    ELSE {}

\* the regular files listed directly or found by recursing into the listed
\* directories
ListedFiles ==
    LET fs == preprocess_paths(paths)
    IN  UNION {FilesBelow(fs[i], TreeDepth) : i \in DOMAIN fs}

\* C7: the default group(), given paths that may include directories, yields
\* only singleton groups whose member is a regular file, never a directory,
\* and when it is exhausted it has yielded the singleton of every regular
\* file that is listed directly or found by recursing into the listed
\* directories, and of no other path.
C7_DefaultGroupRecurses ==
    /\ \A i \in DOMAIN grp_out :
          /\ Len(grp_out[i]) = 1
          /\ ~isdir(grp_out[i][1])
          /\ isfile(grp_out[i][1])
    /\ grp_pc = "done" =>
          {grp_out[i] : i \in DOMAIN grp_out} = {<<f>> : f \in ListedFiles}

(***************************************************************************)
(*                  BaseSingleFileExtractor.extract                        *)
(***************************************************************************)
\* _extract_file of the extractor of the tests: the record of a path
FileRecord(path) == [dirname |-> dirname(path)]

\* what a call of _extract_file may do: return the record or raise
ExtractFileOutcomes(path) ==
    {[kind |-> "returned", value |-> FileRecord(path)]}
        \cup {[kind |-> "raised", value |-> e] : e \in ExceptionKinds}

\* `len(group) > 1`
TooManyNever(gr) == FALSE
TooMany(gr) == Len(gr) > 1

\* paths in one group at most
MaxGroupLen == 3

SingleFilePool ==
    { <<"/", "f", "a", "k", "e", "/", "f", "i", "l", "e">>,
      <<"/", "f", "a", "k", "e", "/", "f", "i", "l", "e", ".", "i", "n">>,
      <<"/", "f", "a", "k", "e", "/", "f", "i", "l", "e", ".", "o", "u", "t">>,
      <<"/", "o", "t", "h", "e", "r", "/", "f", "i", "l", "e">> }

GroupArgs ==
    {StrArg(q) : q \in SingleFilePool}
        \cup {ListArg(l) : l \in UNION {[1..n -> SingleFilePool] : n \in 0..MaxGroupLen}}

NoOutcome == [kind |-> None, value |-> None]

SfInit ==
    /\ sf_group \in GroupArgs
    /\ sf_pc = "call"
    /\ file_calls = <<>>
    /\ file_outcome = NoOutcome
    /\ result = [kind |-> None, value |-> None, at |-> None]

SfIdle ==
    /\ sf_group = ListArg(<<>>)
    /\ sf_pc = "off"
    /\ file_calls = <<>>
    /\ file_outcome = NoOutcome
    /\ result = [kind |-> None, value |-> None, at |-> None]

\* extract calls _extract_file(path) and returns what it returns; what it
\* raises propagates
CallExtractFile(path) ==
    \E o \in ExtractFileOutcomes(path) :
        /\ file_calls' = Append(file_calls, path)
        /\ file_outcome' = o
        /\ result' = [kind |-> o.kind, value |-> o.value, at |-> "_extract_file"]
        /\ sf_pc' = o.kind

\* extract(group) with a str
ExtractStr ==
    /\ sf_pc = "call"
    /\ sf_group.isstr
    /\ CallExtractFile(sf_group.list[1])
    /\ UNCHANGED sf_group
    /\ UNCHANGED notSfVars

\* extract(group) with a sequence of more than one path
ExtractTooMany ==
    /\ sf_pc = "call"
    /\ ~sf_group.isstr
    /\ TooMany(sf_group.list)
    /\ result' = [kind |-> "raised", value |-> "ValueError", at |-> "extract"]
    /\ sf_pc' = "raised"
    /\ UNCHANGED <<sf_group, file_calls, file_outcome>>
    /\ UNCHANGED notSfVars

\* extract(group) with a sequence of one path
ExtractOne ==
    /\ sf_pc = "call"
    /\ ~sf_group.isstr
    /\ ~TooMany(sf_group.list)
    /\ sf_group.list # <<>>
    /\ CallExtractFile(sf_group.list[1])
    /\ UNCHANGED sf_group
    /\ UNCHANGED notSfVars

\* extract(group) with an empty sequence: group[0] raises
ExtractEmpty ==
    /\ sf_pc = "call"
    /\ ~sf_group.isstr
    /\ ~TooMany(sf_group.list)
    /\ sf_group.list = <<>>
    /\ result' = [kind |-> "raised", value |-> "IndexError", at |-> "extract"]
    /\ sf_pc' = "raised"
    /\ UNCHANGED <<sf_group, file_calls, file_outcome>>
    /\ UNCHANGED notSfVars

SfNext ==
    \/ ExtractStr
    \/ ExtractTooMany
    \/ ExtractOne
    \/ ExtractEmpty

(***************************************************************************)
(* Claims about BaseSingleFileExtractor.extract                            *)
(***************************************************************************)
\* C8: once extract is over, if it was given a path string or a group of
\* one path then _extract_file was called exactly once, with that path, and
\* extract returned the record the call returned (or the call's exception
\* went through); if it was given a group of more than one path then it
\* raised ValueError itself and _extract_file was never called.
C8_SingleFileWrapper ==
    sf_pc \in {"returned", "raised"} =>
        /\ (sf_group.isstr \/ Len(sf_group.list) = 1) =>
              /\ file_calls = <<sf_group.list[1]>>
              /\ result = [kind |-> file_outcome.kind, value |-> file_outcome.value,
                           at |-> "_extract_file"]
              /\ file_outcome.kind = "returned" =>
                    /\ sf_pc = "returned"
                    /\ result.value = FileRecord(sf_group.list[1])
        /\ (~sf_group.isstr /\ Len(sf_group.list) > 1) =>
              /\ file_calls = <<>>
              /\ result = [kind |-> "raised", value |-> "ValueError", at |-> "extract"]

\* a group of one path whose record was returned
C8_Witness ==
    /\ sf_pc = "returned"
    /\ ~sf_group.isstr
    /\ Len(sf_group.list) = 1
    /\ file_calls = <<sf_group.list[1]>>

(***************************************************************************)
(*                  BaseAdapter.check_compatibility                        *)
(***************************************************************************)
\* str.split(sep) of a str
RECURSIVE split(_, _)
split(str, sep) ==
    IF \A i \in DOMAIN str : str[i] # sep
    THEN <<str>>
    ELSE LET k == CHOOSE i \in DOMAIN str :
                      str[i] = sep /\ \A j \in 1..(i - 1) : str[j] # sep
         IN  <<SubSeq(str, 1, k - 1)>> \o split(SubSeq(str, k + 1, Len(str)), sep)

Digits == {"0", "1", "2", "3", "4", "5", "6", "7", "8", "9"}

DigitValue(c) ==
    CASE c = "0" -> 0 [] c = "1" -> 1 [] c = "2" -> 2 [] c = "3" -> 3 [] c = "4" -> 4
      [] c = "5" -> 5 [] c = "6" -> 6 [] c = "7" -> 7 [] c = "8" -> 8 [] c = "9" -> 9

\* the value of a str of digits
RECURSIVE DecimalValue(_)
DecimalValue(str) ==
    IF str = <<>> THEN 0
    ELSE 10 * DecimalValue(SubSeq(str, 1, Len(str) - 1)) + DigitValue(str[Len(str)])

intOfLastDigit(x) ==
    IF x # <<>> /\ \A i \in DOMAIN x : x[i] \in Digits
    THEN [exc |-> None, val |-> DigitValue(x[Len(x)])]
    ELSE [exc |-> "ValueError", val |-> 0]

\* int(x) of a str of digits, ValueError for any other str here: [exc, val]
int(x) ==
    IF x # <<>> /\ \A i \in DOMAIN x : x[i] \in Digits
    THEN [exc |-> None, val |-> DecimalValue(x)]
    ELSE [exc |-> "ValueError", val |-> 0]

\* tuple(int(x) for x in version.split('.')): [exc, val]
VersionTuple(version) ==
    LET parts == split(version, ".") IN
    IF \E i \in DOMAIN parts : int(parts[i]).exc # None
    THEN [exc |-> "ValueError", val |-> <<>>]
    ELSE [exc |-> None, val |-> [i \in DOMAIN parts |-> int(parts[i]).val]]

\* `my_version == their_version` of two tuples
VersionsEqualUpToShorter(my_version, their_version) ==
    \A i \in DOMAIN my_version \cap DOMAIN their_version :
        my_version[i] = their_version[i]
VersionsEqual(my_version, their_version) == my_version = their_version

\* check_compatibility: [exc, val]
check_compatibility(version, their) ==
    IF version = NoneList
    THEN [exc |-> None, val |-> TRUE]
    ELSE IF VersionTuple(version).exc # None
    THEN [exc |-> VersionTuple(version).exc, val |-> FALSE]
    ELSE IF VersionTuple(their).exc # None
    THEN [exc |-> VersionTuple(their).exc, val |-> FALSE]
    ELSE [exc |-> None,
          val |-> VersionsEqual(VersionTuple(version).val, VersionTuple(their).val)]

\* the versions adapters and extractors declare
VersionPool ==
    { <<"0", ".", "0", ".", "1">>,
      <<"0", ".", "0", ".", "1", "1">>,
      <<"0", ".", "0", ".", "1", ".", "2">>,
      <<"0", ".", "1">>,
      <<"0", ".", "0", "1">>,
      <<"1">>,
      <<"1", ".", "a">>,
      <<"1", ".">> }

CcInit ==
    /\ adapter_version \in VersionPool \cup {NoneList}
    /\ parser_version \in VersionPool
    /\ cc_pc = "call"
    /\ compatible = [exc |-> None, val |-> FALSE]

CcIdle ==
    /\ adapter_version = NoneList
    /\ parser_version = <<>>
    /\ cc_pc = "off"
    /\ compatible = [exc |-> None, val |-> FALSE]

\* adapter.check_compatibility(parser) with an adapter that declares no version
CheckUnversioned ==
    /\ cc_pc = "call"
    /\ adapter_version = NoneList
    /\ compatible' = check_compatibility(adapter_version, parser_version)
    /\ cc_pc' = "returned"
    /\ UNCHANGED <<adapter_version, parser_version>>
    /\ UNCHANGED notCcVars

\* adapter.check_compatibility(parser) with an adapter that declares a version
CheckVersioned ==
    /\ cc_pc = "call"
    /\ adapter_version # NoneList
    /\ compatible' = check_compatibility(adapter_version, parser_version)
    /\ cc_pc' = IF compatible'.exc = None THEN "returned" ELSE "raised"
    /\ UNCHANGED <<adapter_version, parser_version>>
    /\ UNCHANGED notCcVars

CcNext ==
    \/ CheckUnversioned
    \/ CheckVersioned

(***************************************************************************)
(* Claims about check_compatibility                                        *)
(***************************************************************************)
\* the integer tuple a dotted version stands for, written out
DottedInts(v) ==
    CASE v = <<"0", ".", "0", ".", "1">> -> <<0, 0, 1>>
      [] v = <<"0", ".", "0", ".", "1", "1">> -> <<0, 0, 11>>
      [] v = <<"0", ".", "0", ".", "1", ".", "2">> -> <<0, 0, 1, 2>>
      [] v = <<"0", ".", "1">> -> <<0, 1>>
      [] v = <<"0", ".", "0", "1">> -> <<0, 1>>
      [] v = <<"1">> -> <<1>>

WellFormed == { <<"0", ".", "0", ".", "1">>,
                <<"0", ".", "0", ".", "1", "1">>,
                <<"0", ".", "0", ".", "1", ".", "2">>,
                <<"0", ".", "1">>,
                <<"0", ".", "0", "1">>,
                <<"1">> }

\* C20: check_compatibility returns True when the adapter declares no
\* version, whatever the extractor's version; when it declares one (both
\* versions being dotted integers) it returns True exactly when the two
\* integer tuples have the same length and are element-wise equal, so that
\* "0.0.1" against "0.0.11" is incompatible.
C20_CompatibleIffTuplesEqual ==
    cc_pc # "call" =>
        /\ adapter_version = NoneList =>
              cc_pc = "returned" /\ compatible = [exc |-> None, val |-> TRUE]
        /\ (adapter_version \in WellFormed /\ parser_version \in WellFormed) =>
              /\ cc_pc = "returned"
              /\ compatible.exc = None
              /\ compatible.val =
                    LET a == DottedInts(adapter_version)
                        b == DottedInts(parser_version)
                    IN  /\ Len(a) = Len(b)
                        /\ \A i \in 1..Len(a) : a[i] = b[i]
        /\ (adapter_version = <<"0", ".", "0", ".", "1">> /\ parser_version = <<"0", ".", "0", ".", "1", "1">>) =>
              compatible = [exc |-> None, val |-> FALSE]

\* an adapter made for "0.0.1" was checked against an extractor "0.0.11"
C20_Witness ==
    /\ cc_pc = "returned"
    /\ adapter_version = <<"0", ".", "0", ".", "1">>
    /\ parser_version = <<"0", ".", "0", ".", "1", "1">>
    /\ ~compatible.val

\* C21 as stated: when the adapter declares a version, check_compatibility
\* returns True only if the adapter's version string equals the extractor's
\* version string character for character.
C21_TrueOnlyIfSameString ==
    (cc_pc = "returned" /\ adapter_version # NoneList /\ compatible.val) =>
        adapter_version = parser_version

\* C21 amended: when the adapter declares a version, check_compatibility
\* returns True only if both versions are dotted integers with the same
\* number of components, each pair of components denoting the same integer;
\* the strings themselves may differ in leading zeros.
C21_TrueOnlyIfSameIntegers ==
    (cc_pc = "returned" /\ adapter_version # NoneList /\ compatible.val) =>
        /\ adapter_version \in WellFormed
        /\ parser_version \in WellFormed
        /\ DottedInts(adapter_version) = DottedInts(parser_version)

\* an adapter made for "0.1" was found compatible with an extractor "0.01"
C21_Witness ==
    /\ cc_pc = "returned"
    /\ adapter_version = <<"0", ".", "1">>
    /\ parser_version = <<"0", ".", "0", "1">>
    /\ compatible.val

(***************************************************************************)
(*                 CONTEXTS OF EXTRACTORS AND ADAPTERS                     *)
(***************************************************************************)
\* dict.get(key, {})
GetOrEmpty(d, key) == IF key \in DOMAIN d THEN d[key] ELSE EmptyMap

\* dict.update(other): the keys of `other` replace those of the dict
DeepUpdate(d, other) ==
    [k \in DOMAIN d \cup DOMAIN other |->
        IF k \in DOMAIN d /\ k \in DOMAIN other
        THEN [j \in DOMAIN d[k] \cup DOMAIN other[k] |->
                 IF j \in DOMAIN other[k] THEN other[k][j] ELSE d[k][j]]
        ELSE IF k \in DOMAIN other THEN other[k] ELSE d[k]]
Update(d, other) ==
    [k \in DOMAIN d \cup DOMAIN other |-> IF k \in DOMAIN other THEN other[k] ELSE d[k]]

\* copy.deepcopy of a dict of dicts: a new dict with equal keys and values
deepcopy(d) == [k \in DOMAIN d |-> [j \in DOMAIN d[k] |-> d[k][j]]]

\* get_extractor_and_adapter_contexts: [extractor, adapter]
get_extractor_and_adapter_contexts(name, glob, ext_ctx, ad_ctx) ==
    [extractor |-> Update(Update(deepcopy(glob), GetOrEmpty(ext_ctx, "@all")),
                          GetOrEmpty(ext_ctx, name)),
     adapter |-> Update(Update(deepcopy(glob), GetOrEmpty(ad_ctx, "@all")),
                        GetOrEmpty(ad_ctx, name))]

\* the keys contexts use here; every value is itself a dict
ContextKeys == {"k1", "k2"}

\* a context defining the given keys, each holding the dict {tag: tag}
Layer(keys, tag) == [k \in keys |-> [j \in {tag} |-> tag]]

GlobalContexts == {Layer(ks, "global") : ks \in {{}, {"k2"}, {"k1", "k2"}}}

\* the contexts one entry of extractor_context / adapter_context may hold
Layers(tag) == {Layer(ks, tag) : ks \in {{}, {"k1"}, {"k1", "k2"}}}

\* dicts with any of the given entries, each entry tagged with its own key
PerNameContexts(names, side) ==
    UNION {{f \in [S -> UNION {Layers(side \o n) : n \in S}] :
               \A n \in S : f[n] \in Layers(side \o n)} : S \in SUBSET names}

CtxInit ==
    /\ ctx_driver \in {"directory", "group"}
    /\ ctx_name = "image"
    /\ ctx_adapter \in {None, "serialize"}
    /\ global_context \in GlobalContexts
    /\ extractor_context \in PerNameContexts({"@all", "image"}, "extractor:")
    /\ adapter_context \in PerNameContexts({"@all", "image", "serialize"}, "adapter:")
    /\ ctx_pc = "call"
    /\ my_extractor_context = EmptyMap
    /\ my_adapter_context = EmptyMap
    /\ extract_context = EmptyMap
    /\ transform_context = EmptyMap

CtxIdle ==
    /\ ctx_driver = "idle"
    /\ ctx_name = None
    /\ ctx_adapter = None
    /\ global_context = EmptyMap
    /\ extractor_context = EmptyMap
    /\ adapter_context = EmptyMap
    /\ ctx_pc = "off"
    /\ my_extractor_context = EmptyMap
    /\ my_adapter_context = EmptyMap
    /\ extract_context = EmptyMap
    /\ transform_context = EmptyMap

\* either driver: my_extractor_context, my_adapter_context = get_..._contexts(...)
GetContexts ==
    /\ ctx_pc = "call"
    /\ LET c == get_extractor_and_adapter_contexts(ctx_name, global_context,
                                                   extractor_context, adapter_context)
       IN  /\ my_extractor_context' = c.extractor
           /\ my_adapter_context' = c.adapter
    /\ ctx_pc' = "contexts"
    /\ UNCHANGED <<ctx_driver, ctx_name, ctx_adapter, global_context,
                   extractor_context, adapter_context, extract_context,
                   transform_context>>
    /\ UNCHANGED notCtxVars

\* directory driver: extractor.extract_directory(directory, context=my_extractor_context)
ExtractDirectoryWithContext ==
    /\ ctx_driver = "directory"
    /\ ctx_pc = "contexts"
    /\ extract_context' = my_extractor_context
    /\ ctx_pc' = IF ctx_adapter = None THEN "done" ELSE "extracted"
    /\ UNCHANGED <<ctx_driver, ctx_name, ctx_adapter, global_context,
                   extractor_context, adapter_context, my_extractor_context,
                   my_adapter_context, transform_context>>
    /\ UNCHANGED notCtxVars

\* directory driver: adapter.transform(metadata, my_adapter_context)
TransformWithContext ==
    /\ ctx_driver = "directory"
    /\ ctx_pc = "extracted"
    /\ transform_context' = my_adapter_context
    /\ ctx_pc' = "done"
    /\ UNCHANGED <<ctx_driver, ctx_name, ctx_adapter, global_context,
                   extractor_context, adapter_context, my_extractor_context,
                   my_adapter_context, extract_context>>
    /\ UNCHANGED notCtxVars

\* group driver: run_extractor(name, group, context=my_extractor_context,
\* adapter=adapter_name), which hands `context` to extract and to transform
RunExtractorWithContext ==
    /\ ctx_driver = "group"
    /\ ctx_pc = "contexts"
    /\ extract_context' = my_extractor_context
    /\ transform_context' = IF ctx_adapter = None THEN transform_context
                            ELSE my_extractor_context
    /\ ctx_pc' = "done"
    /\ UNCHANGED <<ctx_driver, ctx_name, ctx_adapter, global_context,
                   extractor_context, adapter_context, my_extractor_context,
                   my_adapter_context>>
    /\ UNCHANGED notCtxVars

CtxNext ==
    \/ GetContexts
    \/ ExtractDirectoryWithContext
    \/ TransformWithContext
    \/ RunExtractorWithContext

(***************************************************************************)
(* Claims about contexts                                                   *)
(***************************************************************************)
\* the layers of the extractor's context, lowest priority first
ExtractorLayers ==
    <<global_context,
      IF "@all" \in DOMAIN extractor_context THEN extractor_context["@all"] ELSE EmptyMap,
      IF ctx_name \in DOMAIN extractor_context THEN extractor_context[ctx_name]
      ELSE EmptyMap>>

\* the highest layer that defines a key, 0 if none does
TopLayer(layers, k) ==
    IF \E i \in DOMAIN layers : k \in DOMAIN layers[i]
    THEN CHOOSE i \in DOMAIN layers :
            /\ k \in DOMAIN layers[i]
            /\ \A j \in DOMAIN layers : k \in DOMAIN layers[j] => j <= i
    ELSE 0

\* C23: the merged extractor context of a plugin name is the key-by-key
\* overlay of the global context, then the '@all' context, then the context
\* registered under the name: every key holds the whole value of the
\* highest-priority layer that defines it (nested values are not merged),
\* keys no layer defines are absent, and the arguments are left as they were.
C23_ContextOverlay ==
    ctx_pc \in {"contexts", "extracted", "done"} =>
        \A k \in ContextKeys :
            IF TopLayer(ExtractorLayers, k) = 0
            THEN k \notin DOMAIN my_extractor_context
            ELSE /\ k \in DOMAIN my_extractor_context
                 /\ my_extractor_context[k] =
                       ExtractorLayers[TopLayer(ExtractorLayers, k)][k]

\* k1 is defined by all three layers and k2 by the global context and the
\* name's context only; the merge was computed
C23_Witness ==
    /\ ctx_pc = "contexts"
    /\ DOMAIN global_context = {"k1", "k2"}
    /\ DOMAIN extractor_context = {"@all", "image"}
    /\ DOMAIN extractor_context["@all"] = {"k1"}
    /\ DOMAIN extractor_context["image"] = {"k1", "k2"}
    /\ my_extractor_context = extractor_context["image"]

\* the layers of the adapter's context as documented: keyed by the adapter
AdapterLayers ==
    <<global_context,
      IF "@all" \in DOMAIN adapter_context THEN adapter_context["@all"] ELSE EmptyMap,
      IF ctx_adapter \in DOMAIN adapter_context THEN adapter_context[ctx_adapter]
      ELSE EmptyMap>>

\* transform has been called in this iteration
TransformCalled == ctx_pc = "done" /\ ctx_adapter # None

\* C25: whenever a driver calls an adapter's transform, the context it passes
\* is the adapter-side merge: the global context overlaid with
\* adapter_context['@all'] and then with the adapter_context entry keyed by
\* the name of that adapter (and so not the extractor's merged context).
C25_AdapterGetsAdapterContext ==
    TransformCalled =>
        /\ DOMAIN transform_context =
               {k \in ContextKeys : TopLayer(AdapterLayers, k) # 0}
        /\ \A k \in DOMAIN transform_context :
               transform_context[k] = AdapterLayers[TopLayer(AdapterLayers, k)][k]

(***************************************************************************)
(*                        SERIALIZING ADAPTERS                             *)
(***************************************************************************)
\* a Python value: its class, its content as text, and for bytes whether
\* they are valid UTF-8
PyValue(cls, text, utf8) == [cls |-> cls, text |-> text, utf8 |-> utf8]

PyNone == PyValue("NoneType", "None", TRUE)

\* the classes json.dumps encodes by itself
JsonNative == {"str", "int", "float", "list", "NoneType"}

\* isinstance(o, np.void), isinstance(o, (np.ndarray, np.generic))
IsNpVoid(o) == o.cls = "void"
IsNpArrayOrGeneric(o) == o.cls \in {"ndarray", "float64", "void"}

\* ndarray.tolist() / generic.tolist()
tolist(o) ==
    IF o.cls = "ndarray" THEN PyValue("list", o.text, TRUE)
    ELSE PyValue("float", o.text, TRUE)

\* bytes.decode(): [exc, val]
decode(o) ==
    IF o.utf8 THEN [exc |-> None, val |-> PyValue("str", o.text, TRUE)]
    ELSE [exc |-> "UnicodeDecodeError", val |-> PyNone]

\* f"<<Unserializable type: {type_name}>>"
Unserializable(o) ==
    PyValue("str", "<<Unserializable type: " \o o.cls \o ">>", TRUE)

\* JSONEncoder.default, what json.dumps calls when `default` is not given
JSONEncoder_default(o) == [exc |-> "TypeError", val |-> PyNone]

\* GreedySerializeAdapter.default: [exc, val]
GreedyDefaultRaises(o) == [exc |-> "TypeError", val |-> PyNone]
GreedySerializeAdapter_default(o) ==
    IF IsNpVoid(o) THEN [exc |-> None, val |-> PyNone]
    ELSE IF IsNpArrayOrGeneric(o) THEN [exc |-> None, val |-> tolist(o)]
    ELSE IF o.cls = "bytes" /\ decode(o).exc = None THEN decode(o)
    ELSE [exc |-> None, val |-> Unserializable(o)]

\* the JSON text of a value json.dumps encodes by itself, as [json, text]
JsonToken(o) ==
    CASE o.cls = "str" -> [json |-> "string", text |-> o.text]
      [] o.cls \in {"int", "float"} -> [json |-> "number", text |-> o.text]
      [] o.cls = "list" -> [json |-> "array", text |-> o.text]
      [] OTHER -> [json |-> "null", text |-> "null"]

\* json.dumps of one value with the `default` of the adapter: [exc, token]
Encode(adapter_class, o) ==
    IF o.cls \in JsonNative
    THEN [exc |-> None, token |-> JsonToken(o)]
    ELSE LET d == IF adapter_class = "GreedySerializeAdapter"
                  THEN GreedySerializeAdapter_default(o)
                  ELSE JSONEncoder_default(o)
         IN  IF d.exc # None \/ d.val.cls \notin JsonNative
             THEN [exc |-> "TypeError", token |-> JsonToken(PyNone)]
             ELSE [exc |-> None, token |-> JsonToken(d.val)]

\* json.dumps(metadata, default=...): [exc, s]
json_dumps(adapter_class, md) ==
    IF \E i \in DOMAIN md : Encode(adapter_class, md[i]).exc # None
    THEN [exc |-> "TypeError", s |-> <<>>]
    ELSE [exc |-> None, s |-> [i \in DOMAIN md |-> Encode(adapter_class, md[i]).token]]

\* values a metadata dict holds at most
MaxLeaves == 2

LeafPool ==
    { PyValue("str", "abc", TRUE),
      PyValue("int", "1", TRUE),
      PyNone,
      PyValue("bytes", "abc", TRUE),
      PyValue("bytes", "\\x03\\xdd", FALSE),
      PyValue("ndarray", "[1, 2]", TRUE),
      PyValue("float64", "1.5", TRUE),
      PyValue("void", "(1, 2)", TRUE),
      PyValue("set", "{1}", TRUE),
      PyValue("complex", "1j", TRUE) }

GsInit ==
    /\ gs_adapter \in {"SerializeAdapter", "GreedySerializeAdapter"}
    /\ gs_metadata \in UNION {[1..n -> LeafPool] : n \in 1..MaxLeaves}
    /\ gs_pc = "call"
    /\ serialized = [exc |-> None, s |-> <<>>]

GsIdle ==
    /\ gs_adapter = "off"
    /\ gs_metadata = <<>>
    /\ gs_pc = "off"
    /\ serialized = [exc |-> None, s |-> <<>>]

\* SerializeAdapter.transform
SerializeTransform ==
    /\ gs_pc = "call"
    /\ gs_adapter = "SerializeAdapter"
    /\ serialized' = json_dumps(gs_adapter, gs_metadata)
    /\ gs_pc' = IF serialized'.exc = None THEN "returned" ELSE "raised"
    /\ UNCHANGED <<gs_adapter, gs_metadata>>
    /\ UNCHANGED notGsVars

\* GreedySerializeAdapter.transform
GreedySerializeTransform ==
    /\ gs_pc = "call"
    /\ gs_adapter = "GreedySerializeAdapter"
    /\ serialized' = json_dumps(gs_adapter, gs_metadata)
    /\ gs_pc' = IF serialized'.exc = None THEN "returned" ELSE "raised"
    /\ UNCHANGED <<gs_adapter, gs_metadata>>
    /\ UNCHANGED notGsVars

GsNext ==
    \/ SerializeTransform
    \/ GreedySerializeTransform

(***************************************************************************)
(* Claims about the greedy serializer                                      *)
(***************************************************************************)
\* C24: GreedySerializeAdapter.transform never raises because of a value
\* json cannot encode: bytes come out as the string they decode to, bytes
\* that do not decode as "<<Unserializable type: bytes>>", and a value of a
\* class the adapter has no rule for as "<<Unserializable type: T>>" with T
\* the name of its class.
C24_GreedyNeverRaises ==
    (gs_adapter = "GreedySerializeAdapter" /\ gs_pc # "call") =>
        /\ gs_pc = "returned"
        /\ serialized.exc = None
        /\ Len(serialized.s) = Len(gs_metadata)
        /\ \A i \in DOMAIN gs_metadata :
              LET o == gs_metadata[i] IN
              /\ (o.cls = "bytes" /\ o.utf8) =>
                    serialized.s[i] = [json |-> "string", text |-> o.text]
              /\ (o.cls = "bytes" /\ ~o.utf8) =>
                    serialized.s[i] =
                        [json |-> "string", text |-> "<<Unserializable type: bytes>>"]
              /\ o.cls = "set" =>
                    serialized.s[i] =
                        [json |-> "string", text |-> "<<Unserializable type: set>>"]
              /\ o.cls = "complex" =>
                    serialized.s[i] =
                        [json |-> "string", text |-> "<<Unserializable type: complex>>"]

\* bytes that do not decode and a set were serialized together
C24_Witness ==
    /\ gs_adapter = "GreedySerializeAdapter"
    /\ gs_pc = "returned"
    /\ Len(gs_metadata) = 2
    /\ gs_metadata[1].cls = "bytes" /\ ~gs_metadata[1].utf8
    /\ gs_metadata[2].cls = "set"
    /\ serialized.s[1].text = "<<Unserializable type: bytes>>"

(***************************************************************************)
(*              map_dict_values AND THE RULE DICTS IT IS GIVEN             *)
(*                                                                         *)
(* A rule dict is a record whose optional keys hold "absent" when the dict *)
(* has no such key.                                                        *)
(***************************************************************************)
\* m.setdefault(key, None) for the three keys, as the dict is afterwards
SetDefaultKeys(m) ==
    [m EXCEPT !.cast_fn = IF @ = "absent" THEN None ELSE @,
              !.units = IF @ = "absent" THEN None ELSE @,
              !.conv_fn = IF @ = "absent" THEN None ELSE @]

\* m['override']: [exc, val]
GetOverride(m) ==
    IF m.override = "absent"
    THEN [exc |-> "KeyError", val |-> FALSE]
    ELSE [exc |-> None, val |-> m.override = "True"]

\* one iteration of `for m in mapping` on the rule dict m: [exc, m, dest]
ApplyRuleDict(src, dst, m) ==
    LET m1 == SetDefaultKeys(m)
        value == get_nested_dict_value_by_path(src, m1.source_path, m1.cast_fn)
    IN  IF value.exc # None
        THEN [exc |-> value.exc, m |-> m1, dest |-> dst]
        ELSE IF GetOverride(m1).exc # None
        THEN [exc |-> GetOverride(m1).exc, m |-> m1, dest |-> dst]
        ELSE LET r == set_nested_dict_value_with_units(dst, m1.dest_path, value.val,
                                                       m1.units, GetOverride(m1).val,
                                                       m1.conv_fn)
             IN  [exc |-> r.exc, m |-> m1, dest |-> r.dict]

\* rules a list holds at most
MaxRuleDicts == 2

\* the rule dicts lists are made of
RuleDicts ==
    [source_path : {<<"t">>, <<"missing">>}, dest_path : {<<"a", "b">>},
     cast_fn : {"absent", None, "float"}, units : {"absent", "'nm'"},
     conv_fn : {"absent", "halve"}, override : {"absent", "True", "False"}]

MdInit ==
    /\ mapping \in UNION {[1..n -> RuleDicts] : n \in 1..MaxRuleDicts}
    /\ mapping_before = mapping
    /\ md_source = SourceDict
    /\ md_source_before = md_source
    /\ md_dest = EmptyDict
    /\ md_idx = 1
    /\ md_pc = "mapping"
    /\ md_log = <<>>

MdIdle ==
    /\ mapping = <<>>
    /\ mapping_before = <<>>
    /\ md_source = EmptyDict
    /\ md_source_before = EmptyDict
    /\ md_dest = EmptyDict
    /\ md_idx = 0
    /\ md_pc = "off"
    /\ md_log = <<>>

\* map_dict_values: the body of `for m in mapping`
ApplyNextRuleDict ==
    /\ md_pc = "mapping"
    /\ md_idx <= Len(mapping)
    /\ LET r == ApplyRuleDict(md_source, md_dest, mapping[md_idx]) IN
       /\ mapping' = [mapping EXCEPT ![md_idx] = r.m]
       /\ md_dest' = r.dest
       /\ md_log' = Append(md_log, r.exc)
       /\ md_pc' = IF r.exc # None THEN "raised" ELSE "mapping"
    /\ md_idx' = md_idx + 1
    /\ UNCHANGED <<mapping_before, md_source, md_source_before>>
    /\ UNCHANGED notMdVars

\* map_dict_values: the list is exhausted
MapDictValuesReturns ==
    /\ md_pc = "mapping"
    /\ md_idx > Len(mapping)
    /\ md_pc' = "returned"
    /\ UNCHANGED <<mapping, mapping_before, md_source, md_source_before, md_dest,
                   md_idx, md_log>>
    /\ UNCHANGED notMdVars

MdNext ==
    \/ ApplyNextRuleDict
    \/ MapDictValuesReturns

(***************************************************************************)
(* Claims about the rule dicts                                             *)
(***************************************************************************)
\* the rule dict gives only source, source_path, dest and dest_path
OnlyMandatoryKeys(m) ==
    /\ m.cast_fn = "absent"
    /\ m.units = "absent"
    /\ m.conv_fn = "absent"
    /\ m.override = "absent"

\* C26: cast, unit, convert and override are all optional: a rule dict that
\* gives only source, source_path, dest and dest_path is applied without
\* raising.
C26_OptionalKeys ==
    \A i \in DOMAIN md_log :
        OnlyMandatoryKeys(mapping_before[i]) => md_log[i] = None

\* C27: after map_dict_values returns, the source dict and every rule dict of
\* the list are what they were before the call.
C27_RulesAndSourcesUntouched ==
    md_pc = "returned" =>
        /\ md_source = md_source_before
        /\ mapping = mapping_before

(***************************************************************************)
(* The specifications: one component runs, the others are not called       *)
(***************************************************************************)
InitRun ==
    /\ RunInit
    /\ DictIdle
    /\ PfxIdle
    /\ DftIdle
    /\ GrpIdle
    /\ SfIdle
    /\ CcIdle
    /\ CtxIdle
    /\ GsIdle
    /\ MdIdle
SpecRun == InitRun /\ [][RunNext]_vars

InitDict ==
    /\ RunIdle
    /\ DictInit
    /\ PfxIdle
    /\ DftIdle
    /\ GrpIdle
    /\ SfIdle
    /\ CcIdle
    /\ CtxIdle
    /\ GsIdle
    /\ MdIdle
SpecDict == InitDict /\ [][DictNext]_vars

InitMap ==
    /\ RunIdle
    /\ MapInit
    /\ PfxIdle
    /\ DftIdle
    /\ GrpIdle
    /\ SfIdle
    /\ CcIdle
    /\ CtxIdle
    /\ GsIdle
    /\ MdIdle
SpecMap == InitMap /\ [][MapNext]_vars

InitPostfix ==
    /\ RunIdle
    /\ DictIdle
    /\ PfxInit
    /\ DftIdle
    /\ GrpIdle
    /\ SfIdle
    /\ CcIdle
    /\ CtxIdle
    /\ GsIdle
    /\ MdIdle
SpecPostfix == InitPostfix /\ [][PfxNext]_vars

InitDFT ==
    /\ RunIdle
    /\ DictIdle
    /\ PfxIdle
    /\ DftInit
    /\ GrpIdle
    /\ SfIdle
    /\ CcIdle
    /\ CtxIdle
    /\ GsIdle
    /\ MdIdle
SpecDFT == InitDFT /\ [][DftNext]_vars

InitGroup ==
    /\ RunIdle
    /\ DictIdle
    /\ PfxIdle
    /\ DftIdle
    /\ GrpInit
    /\ SfIdle
    /\ CcIdle
    /\ CtxIdle
    /\ GsIdle
    /\ MdIdle
SpecGroup == InitGroup /\ [][GrpNext]_vars

InitSingle ==
    /\ RunIdle
    /\ DictIdle
    /\ PfxIdle
    /\ DftIdle
    /\ GrpIdle
    /\ SfInit
    /\ CcIdle
    /\ CtxIdle
    /\ GsIdle
    /\ MdIdle
SpecSingle == InitSingle /\ [][SfNext]_vars

InitCompat ==
    /\ RunIdle
    /\ DictIdle
    /\ PfxIdle
    /\ DftIdle
    /\ GrpIdle
    /\ SfIdle
    /\ CcInit
    /\ CtxIdle
    /\ GsIdle
    /\ MdIdle
SpecCompat == InitCompat /\ [][CcNext]_vars

InitContext ==
    /\ RunIdle
    /\ DictIdle
    /\ PfxIdle
    /\ DftIdle
    /\ GrpIdle
    /\ SfIdle
    /\ CcIdle
    /\ CtxInit
    /\ GsIdle
    /\ MdIdle
SpecContext == InitContext /\ [][CtxNext]_vars

InitSerialize ==
    /\ RunIdle
    /\ DictIdle
    /\ PfxIdle
    /\ DftIdle
    /\ GrpIdle
    /\ SfIdle
    /\ CcIdle
    /\ CtxIdle
    /\ GsInit
    /\ MdIdle
SpecSerialize == InitSerialize /\ [][GsNext]_vars

InitRuleDicts ==
    /\ RunIdle
    /\ DictIdle
    /\ PfxIdle
    /\ DftIdle
    /\ GrpIdle
    /\ SfIdle
    /\ CcIdle
    /\ CtxIdle
    /\ GsIdle
    /\ MdInit
SpecRuleDicts == InitRuleDicts /\ [][MdNext]_vars

====
